---- MODULE Spec2Model ----
(***************************************************************************)
(* LeadBridge: lead / deal lifecycle and role-based access control.        *)
(*                                                                         *)
(* The state is the relational store: the reference data (users, referrer  *)
(* profiles, manager profiles, the office), the Lead rows and the Deal     *)
(* rows.  Every view that writes is one action; the read-only views and    *)
(* the access service are operators over the state.                        *)
(***************************************************************************)
EXTENDS Integers, FiniteSets, Sequences, TLC

VARIABLES
    users,              \* the User rows
    referrer_profile,   \* user -> NoProfile | [manager, advisors] (ReferrerProfile)
    manager_profile,    \* user -> None | office                (ManagerProfile.office)
    office_owner,       \* office -> None | user                (Office.owner)
    leads,              \* lead id -> NoLead | Lead row
    deals,              \* lead id -> NoDeal | Deal row (Deal.lead is one-to-one)
    notes,              \* the LeadNote rows
    history,            \* the LeadHistory rows that reference a note
    emitted,            \* what the last request wrote besides the Lead and Deal rows
    lead_client,        \* lead id -> the client columns of the Lead row
    deal_client,        \* lead id -> the client columns of the Deal row
    deal_status,        \* lead id -> Deal.status
    running,            \* the requests that have written some of their rows
    commission,         \* user -> the commission columns of the User row
    loan_amount,        \* lead id -> Deal.loan_amount
    created_at,         \* lead id -> the days the Lead row and the Deal row were created
    shown,              \* the figures of the last response that displays some
    lead_old_values,    \* signals._lead_old_values: lead id -> the values kept by pre_save
    activity_log        \* the ActivityLog rows of type LEAD_UPDATED

vars == <<users, referrer_profile, manager_profile, office_owner, leads, deals,
          notes, history, emitted, lead_client, deal_client, deal_status, running,
          commission, loan_amount, created_at, shown, lead_old_values, activity_log>>

\* The audit trail: notes, history and notifications
journal == <<notes, history, emitted>>

\* The columns written by the client-data sync and by deal edit
columns == <<lead_client, deal_client, deal_status>>

\* What the lifecycle and access specifications leave out: there a request is
\* one step on the Lead and Deal rows
left_out == <<journal, columns, running>>

\* The change log kept by the signal handlers
change_log == <<lead_old_values, activity_log>>

\* The figures of commissions and statistics: the rates, the loan amounts, the
\* creation days and what is displayed; with them the change log, which the
\* requests below are not followed into
figures == <<commission, loan_amount, created_at, shown, change_log>>

\* administrator-managed reference data
hierarchy == <<users, referrer_profile, manager_profile, office_owner>>

-----------------------------------------------------------------------------
(* Bounds *)

MaxLeads == 1
MaxDay == 2

LeadIds == 1..MaxLeads
Days == 1..MaxDay

-----------------------------------------------------------------------------
(* Users: accounts.models.User *)

None == "None"
NoProfile == [absent |-> TRUE]
NoLead == [absent |-> TRUE]
NoDeal == [absent |-> TRUE]
\* callback_scheduled_date IS NULL
NoDate == 0
NoClient == [absent |-> TRUE]

UserNames == {"adm", "A", "B", "R", "M", "O"}
Offices == {"off"}

role(u) ==
    CASE u = "adm" -> "ADMIN"
      [] u \in {"A", "B"} -> "ADVISOR"
      [] u = "R" -> "REFERRER"
      [] u = "M" -> "REFERRER_MANAGER"
      [] u = "O" -> "OFFICE"

is_superuser(u) == u = "adm"

has_admin_access(u) == u = "A"

Advisors == {u \in users : role(u) = "ADVISOR"}

IsAdminLike(u) == is_superuser(u) \/ role(u) = "ADMIN"

-----------------------------------------------------------------------------
(* Lead.CommunicationStatus, Deal.CommissionStatus *)

CommunicationStatus ==
    {"NEW", "MEETING", "SEARCHING_PROPERTY", "WAITING_FOR_CLIENT", "FAILED",
     "DEAL_CREATED", "COMMISSION_PAID"}

manual_status_codes ==
    {"NEW", "MEETING", "SEARCHING_PROPERTY", "WAITING_FOR_CLIENT", "FAILED"}

\* What CallbackScheduleForm receives as callback_note: nothing or a text
CallbackNotes == {"", "call after the holiday"}

AutomaticStatus == {"DEAL_CREATED", "COMMISSION_PAID"}

ACTION_CHOICES == {"SEARCHING_PROPERTY", "WAITING_FOR_CLIENT", "FAILED", "CREATE_DEAL"}

CommissionParts == {"referrer", "manager", "office"}

-----------------------------------------------------------------------------
(* Hierarchy traversal: referrer -> profile -> manager -> office -> owner *)

Pool(u) ==
    IF referrer_profile[u] = NoProfile THEN {} ELSE referrer_profile[u].advisors

referrer_manager(ref) ==
    IF referrer_profile[ref] = NoProfile THEN None ELSE referrer_profile[ref].manager

referrer_office(ref) ==
    IF referrer_manager(ref) = None THEN None
    ELSE manager_profile[referrer_manager(ref)]

referrer_office_owner(ref) ==
    IF referrer_office(ref) = None THEN None
    ELSE office_owner[referrer_office(ref)]

ExistingLeads == {l \in LeadIds : leads[l] # NoLead}
ExistingDeals == {l \in LeadIds : deals[l] # NoDeal}

-----------------------------------------------------------------------------
(* Access control *)

\* views.get_lead_for_user_or_404: TRUE when the lead is returned, FALSE on 404
get_lead_for_user_or_404(user, l) ==
    /\ leads[l] # NoLead
    /\ IF IsAdminLike(user) THEN TRUE
       ELSE IF role(user) = "ADVISOR" THEN
            IF has_admin_access(user)
            THEN \/ leads[l].advisor = user
                 \/ user \in Pool(leads[l].referrer)
            ELSE leads[l].advisor = user
       ELSE IF role(user) = "REFERRER" THEN leads[l].referrer = user
       ELSE IF role(user) = "REFERRER_MANAGER" THEN
            \/ referrer_manager(leads[l].referrer) = user
            \/ leads[l].referrer = user
       ELSE IF role(user) = "OFFICE" THEN
            \/ referrer_office_owner(leads[l].referrer) = user
            \/ leads[l].referrer = user
       ELSE FALSE

\* views.get_deal_for_user_or_404: rights are resolved through the lead
get_deal_for_user_or_404(user, d) ==
    /\ deals[d] # NoDeal
    /\ get_lead_for_user_or_404(user, d)

\* The role filter with the hierarchy clauses only: personal contacts stay in
\* the REFERRER_MANAGER and OFFICE branches
LeadRoleFilter_keeping_personal(user, l) ==
    IF IsAdminLike(user) THEN TRUE
    ELSE IF role(user) = "ADVISOR" THEN
         IF has_admin_access(user)
         THEN \/ leads[l].advisor = user
              \/ user \in Pool(leads[l].referrer)
              \/ /\ leads[l].is_personal_contact
                 /\ leads[l].advisor # None
                 /\ user \in Pool(leads[l].advisor)
         ELSE leads[l].advisor = user
    ELSE IF role(user) = "REFERRER" THEN leads[l].referrer = user
    ELSE IF role(user) = "REFERRER_MANAGER" THEN
         \/ referrer_manager(leads[l].referrer) = user
         \/ leads[l].referrer = user
    ELSE IF role(user) = "OFFICE" THEN
         \/ referrer_office_owner(leads[l].referrer) = user
         \/ leads[l].referrer = user
    ELSE FALSE

\* The role filter of LeadAccessService.get_leads_queryset
LeadRoleFilter(user, l) ==
    IF IsAdminLike(user) THEN TRUE
    ELSE IF role(user) = "ADVISOR" THEN
         IF has_admin_access(user)
         THEN \/ leads[l].advisor = user
              \/ user \in Pool(leads[l].referrer)
              \/ /\ leads[l].is_personal_contact
                 /\ leads[l].advisor # None
                 /\ user \in Pool(leads[l].advisor)
         ELSE leads[l].advisor = user
    ELSE IF role(user) = "REFERRER" THEN leads[l].referrer = user
    ELSE IF role(user) = "REFERRER_MANAGER" THEN
         /\ \/ referrer_manager(leads[l].referrer) = user
            \/ leads[l].referrer = user
         /\ ~leads[l].is_personal_contact
    ELSE IF role(user) = "OFFICE" THEN
         /\ \/ referrer_office_owner(leads[l].referrer) = user
            \/ leads[l].referrer = user
         /\ ~leads[l].is_personal_contact
    ELSE FALSE

\* LeadAccessService.get_leads_queryset(user)
get_leads_queryset(user) == {l \in ExistingLeads : LeadRoleFilter(user, l)}

\* The lead list when has_admin_access is not consulted
my_leads_assigned_only(user) ==
    {l \in ExistingLeads :
        \/ IsAdminLike(user)
        \/ role(user) = "ADVISOR" /\ leads[l].advisor = user
        \/ role(user) = "REFERRER" /\ leads[l].referrer = user}

\* views.my_leads: the base queryset of the lead list
my_leads(user) ==
    {l \in ExistingLeads :
        IF IsAdminLike(user) THEN TRUE
        ELSE IF role(user) = "ADVISOR" THEN
             IF has_admin_access(user)
             THEN \/ leads[l].advisor = user
                  \/ user \in Pool(leads[l].referrer)
                  \/ /\ leads[l].is_personal_contact
                     /\ leads[l].advisor # None
                     /\ user \in Pool(leads[l].advisor)
             ELSE leads[l].advisor = user
        ELSE IF role(user) = "REFERRER" THEN leads[l].referrer = user
        ELSE IF role(user) = "REFERRER_MANAGER" THEN
             /\ \/ referrer_manager(leads[l].referrer) = user
                \/ leads[l].referrer = user
             /\ ~leads[l].is_personal_contact
        ELSE IF role(user) = "OFFICE" THEN
             /\ \/ referrer_office_owner(leads[l].referrer) = user
                \/ leads[l].referrer = user
             /\ ~leads[l].is_personal_contact
        ELSE FALSE}

\* LeadAccessService.can_edit_lead(user, lead)
can_edit_lead(user, l) == l \in get_leads_queryset(user)

\* LeadAccessService.get_deals_queryset(user)
get_deals_queryset(user) ==
    {d \in ExistingDeals :
        IF IsAdminLike(user) THEN TRUE
        ELSE IF role(user) = "ADVISOR" THEN
             IF has_admin_access(user)
             THEN \/ leads[d].advisor = user
                  \/ user \in Pool(leads[d].referrer)
                  \/ /\ leads[d].is_personal_contact
                     /\ leads[d].advisor # None
                     /\ user \in Pool(leads[d].advisor)
             ELSE leads[d].advisor = user
        ELSE IF role(user) = "REFERRER" THEN
             /\ leads[d].referrer = user
             /\ ~deals[d].is_personal_deal
        ELSE IF role(user) = "REFERRER_MANAGER" THEN
             /\ \/ referrer_manager(leads[d].referrer) = user
                \/ leads[d].referrer = user
             /\ ~(leads[d].is_personal_contact \/ deals[d].is_personal_deal)
        ELSE IF role(user) = "OFFICE" THEN
             /\ \/ referrer_office_owner(leads[d].referrer) = user
                \/ leads[d].referrer = user
             /\ ~(leads[d].is_personal_contact \/ deals[d].is_personal_deal)
        ELSE FALSE}

\* views.deals_list: the base queryset of the deals list
deals_list(user) ==
    {d \in ExistingDeals :
        IF IsAdminLike(user) THEN TRUE
        ELSE IF role(user) = "ADVISOR" THEN
             IF has_admin_access(user)
             THEN \/ leads[d].advisor = user
                  \/ user \in Pool(leads[d].referrer)
             ELSE leads[d].advisor = user
        ELSE IF role(user) = "REFERRER" THEN leads[d].referrer = user
        ELSE IF role(user) = "REFERRER_MANAGER" THEN
             \/ referrer_manager(leads[d].referrer) = user
             \/ leads[d].referrer = user
        ELSE IF role(user) = "OFFICE" THEN
             \/ referrer_office_owner(leads[d].referrer) = user
             \/ leads[d].referrer = user
        ELSE FALSE}

\* The advisor / admin gate of the meeting, deal and commission views
IsAdvisorOrAdmin(user) == IsAdminLike(user) \/ role(user) = "ADVISOR"

-----------------------------------------------------------------------------
(* LeadForm: what a submitted form may carry for each role.  A HiddenInput   *)
(* widget changes only the rendering; the posted value is still validated   *)
(* against the field's queryset / choices.                                  *)

\* LeadForm.__init__: queryset of the "advisor" field
LeadForm_advisor_queryset(user) ==
    IF role(user) = "REFERRER" THEN
        IF Pool(user) # {} THEN Pool(user) ELSE Advisors
    ELSE IF role(user) = "ADVISOR" THEN
        IF Pool(user) # {} THEN Pool(user) ELSE Advisors
    ELSE IF role(user) = "REFERRER_MANAGER" THEN
        Advisors \cap UNION {Pool(x) : x \in {y \in users : referrer_manager(y) = user}}
    ELSE IF role(user) = "OFFICE" THEN
        Advisors \cap UNION {Pool(x) : x \in {y \in users : referrer_office_owner(y) = user}}
    ELSE Advisors

\* LeadForm.__init__: queryset of the "referrer" field
LeadForm_referrer_queryset(user) ==
    IF role(user) = "ADVISOR" THEN
        {x \in users : user \in Pool(x)}
            \cup (IF referrer_profile[user] # NoProfile THEN {user} ELSE {})
    ELSE IF role(user) = "REFERRER_MANAGER" THEN
        {x \in users : referrer_manager(x) = user} \cup {user}
    ELSE IF role(user) = "OFFICE" THEN
        {x \in users : referrer_office_owner(x) = user} \cup {user}
    ELSE {x \in users : role(x) = "REFERRER"}

\* LeadForm.__init__: the values "communication_status" can take after
\* validation; current is the instance's status (None when creating)
LeadForm_status_choices(user, current) ==
    IF role(user) = "ADVISOR" THEN
        IF current # None /\ current \notin manual_status_codes
        THEN {current}
        ELSE manual_status_codes
    ELSE CommunicationStatus

\* LeadForm.clean: a personal contact gets referrer = advisor
LeadForm_clean_referrer(f_referrer, f_advisor, f_personal) ==
    IF f_personal THEN f_advisor ELSE f_referrer

-----------------------------------------------------------------------------
(* Reference data and initial state *)

ReferrerProfileRows(managers, pools) == [manager : managers, advisors : pools]

Hierarchy(us, rp, mp, oo) ==
    [users |-> us, referrer_profile |-> rp, manager_profile |-> mp, office_owner |-> oo]

\* The reference data explored by the lifecycle specification: one advisor,
\* one referrer with no manager, a manager without office, or a manager in an office
LifecycleHierarchies ==
    {Hierarchy({"adm", "A", "R", "M"}, rp, mp, [o \in Offices |-> None]) :
        rp \in {[u \in UserNames |-> IF u = "R" THEN pr ELSE NoProfile] :
                    pr \in ReferrerProfileRows({None, "M"}, {{"A"}})},
        mp \in {[u \in UserNames |-> IF u = "M" THEN x ELSE None] : x \in {None, "off"}}}

\* The reference data explored by the audit-trail specification: one advisor
\* and one referrer without manager, with or without an admin
TrailHierarchies ==
    {Hierarchy(us, rp, [u \in UserNames |-> None], [o \in Offices |-> None]) :
        us \in {{"A", "R"}, {"adm", "A", "R"}},
        rp \in {[u \in UserNames |-> IF u = "R" THEN pr ELSE NoProfile] :
                    pr \in ReferrerProfileRows({None}, {{"A"}})}}

\* The reference data explored by the access specification
AccessHierarchies ==
    {Hierarchy(UserNames, rp, mp, oo) :
        rp \in {[u \in UserNames |-> IF u = "R" THEN pr ELSE IF u = "B" THEN pb ELSE NoProfile] :
                    pr \in {NoProfile}
                            \cup ReferrerProfileRows({None, "M", "O"}, SUBSET {"A", "B"}),
                    pb \in {NoProfile} \cup ReferrerProfileRows({None, "M"}, {{}, {"A"}})},
        mp \in {[u \in UserNames |-> IF u = "M" THEN x ELSE IF u = "O" THEN y ELSE None] :
                    x \in {None, "off"}, y \in {None, "off"}},
        oo \in {[o \in Offices |-> w] : w \in {None, "O"}}}

\* A request that creates no LeadHistory row and calls no notification: per
\* lead, the event types of the rows created and the notify_* functions called
NothingEmitted ==
    [history |-> [l \in LeadIds |-> <<>>], notifications |-> [l \in LeadIds |-> <<>>]]

\* accounts.User: the commission columns with their defaults; a percentage is
\* a decimal with two places, held in hundredths of a percent
DefaultCommission ==
    [commission_total_per_million |-> 0,
     commission_referrer_pct |-> 0,
     commission_manager_pct |-> 0,
     commission_office_pct |-> 0]

\* No entry under a key of _lead_old_values
NoEntry == "NoEntry"

\* The cache is empty and nothing is logged
InitChangeLog ==
    /\ lead_old_values = [l \in LeadIds |-> NoEntry]
    /\ activity_log = <<>>

\* A falsy loan_amount: zero, or no amount at all
NoLoan == 0

\* No page rendered yet
NoPage == [absent |-> TRUE]

\* No rate configured, no deal, nothing displayed
InitFigures ==
    /\ commission = [u \in UserNames |-> DefaultCommission]
    /\ loan_amount = [l \in LeadIds |-> NoLoan]
    /\ created_at = [l \in LeadIds |-> [lead |-> NoDate, deal |-> NoDate]]
    /\ shown = NoPage
    /\ InitChangeLog

InitRows ==
    /\ InitFigures
    /\ leads = [l \in LeadIds |-> NoLead]
    /\ deals = [l \in LeadIds |-> NoDeal]
    /\ notes = {}
    /\ history = {}
    /\ emitted = NothingEmitted
    /\ lead_client = [l \in LeadIds |-> NoClient]
    /\ deal_client = [l \in LeadIds |-> NoClient]
    /\ deal_status = [l \in LeadIds |-> None]
    /\ running = {}

InitHierarchy(h) ==
    /\ users = h.users
    /\ referrer_profile = h.referrer_profile
    /\ manager_profile = h.manager_profile
    /\ office_owner = h.office_owner

Init ==
    /\ \E h \in LifecycleHierarchies : InitHierarchy(h)
    /\ InitRows

InitAccess ==
    /\ \E h \in AccessHierarchies : InitHierarchy(h)
    /\ InitRows

InitTrail ==
    /\ \E h \in TrailHierarchies : InitHierarchy(h)
    /\ InitRows

-----------------------------------------------------------------------------
(* Lead operations *)

NewLead(referrer, advisor, personal, status) ==
    [referrer |-> referrer,
     advisor |-> advisor,
     is_personal_contact |-> personal,
     communication_status |-> status,
     meeting_scheduled |-> FALSE,
     meeting_done |-> FALSE,
     meeting_done_at |-> None,
     callback_scheduled_date |-> NoDate,
     callback_note |-> ""]

FreeLead == CHOOSE l \in LeadIds : leads[l] = NoLead /\ \A k \in LeadIds : k < l => leads[k] # NoLead

\* views.lead_create (POST, valid form)
lead_create(user, f_advisor, f_referrer, f_personal, f_status) ==
    /\ role(user) \in {"REFERRER", "ADVISOR", "OFFICE", "REFERRER_MANAGER"}
    /\ \E l \in LeadIds : leads[l] = NoLead
    /\ f_advisor \in LeadForm_advisor_queryset(user)
    /\ f_referrer \in LeadForm_referrer_queryset(user)
    /\ f_status \in LeadForm_status_choices(user, None)
    /\ LET cleaned == LeadForm_clean_referrer(f_referrer, f_advisor, f_personal)
           referrer == IF role(user) = "REFERRER" THEN user ELSE cleaned
       IN  /\ leads' = [leads EXCEPT ![FreeLead] =
                            NewLead(referrer, f_advisor, f_personal, f_status)]
    /\ UNCHANGED <<hierarchy, figures, deals>>

\* views.lead_edit (POST, valid form)
lead_edit(user, l, f_advisor, f_referrer, f_personal, f_status) ==
    /\ get_lead_for_user_or_404(user, l)
    /\ f_advisor \in LeadForm_advisor_queryset(user)
    /\ f_referrer \in LeadForm_referrer_queryset(user)
    /\ f_status \in LeadForm_status_choices(user, leads[l].communication_status)
    /\ LET cleaned == LeadForm_clean_referrer(f_referrer, f_advisor, f_personal)
           referrer == IF role(user) = "REFERRER" THEN user ELSE cleaned
           advisor == IF role(user) = "ADVISOR" THEN user ELSE f_advisor
       IN  leads' = [leads EXCEPT ![l].referrer = referrer,
                                  ![l].advisor = advisor,
                                  ![l].is_personal_contact = f_personal,
                                  ![l].communication_status = f_status]
    /\ UNCHANGED <<hierarchy, figures, deals>>

\* views.lead_schedule_meeting (POST, valid form)
lead_schedule_meeting(user, l) ==
    /\ get_lead_for_user_or_404(user, l)
    /\ IsAdvisorOrAdmin(user)
    /\ leads' = [leads EXCEPT ![l].communication_status = "MEETING",
                              ![l].meeting_scheduled = TRUE]
    /\ UNCHANGED <<hierarchy, figures, deals>>

\* views.lead_meeting_completed (POST, valid form)
lead_meeting_completed(user, l, next_action) ==
    /\ get_lead_for_user_or_404(user, l)
    /\ IsAdvisorOrAdmin(user)
    /\ leads[l].communication_status = "MEETING"
    /\ next_action \in ACTION_CHOICES
    /\ leads' = [leads EXCEPT
                    ![l].meeting_done = TRUE,
                    ![l].meeting_done_at = "now",
                    ![l].communication_status =
                        IF next_action = "CREATE_DEAL" THEN @ ELSE next_action]
    /\ UNCHANGED <<hierarchy, figures, deals>>

\* views.lead_meeting_cancelled (POST)
lead_meeting_cancelled(user, l) ==
    /\ get_lead_for_user_or_404(user, l)
    /\ IsAdvisorOrAdmin(user)
    /\ leads[l].communication_status = "MEETING"
    /\ leads' = [leads EXCEPT ![l].communication_status = "FAILED"]
    /\ UNCHANGED <<hierarchy, figures, deals>>

\* views.schedule_callback: the permission computed by the view
schedule_callback_can_schedule(user, l) ==
    IF IsAdminLike(user) THEN TRUE
    ELSE IF role(user) = "ADVISOR" /\ leads[l].advisor = user THEN TRUE
    ELSE IF role(user) = "REFERRER" /\ leads[l].referrer = user THEN TRUE
    ELSE IF role(user) = "REFERRER_MANAGER" THEN
         referrer_manager(leads[l].referrer) = user
    ELSE IF role(user) = "OFFICE" THEN
         /\ referrer_office(leads[l].referrer) # None
         /\ referrer_office_owner(leads[l].referrer) = user
    ELSE FALSE

\* LeadAccessService.can_schedule_callback(user, lead)
can_schedule_callback(user, l) ==
    IF IsAdminLike(user) THEN TRUE
    ELSE IF role(user) = "ADVISOR" THEN leads[l].advisor = user
    ELSE IF role(user) = "REFERRER" THEN leads[l].referrer = user
    ELSE IF role(user) = "REFERRER_MANAGER" THEN
         \/ referrer_manager(leads[l].referrer) = user
         \/ leads[l].referrer = user
    ELSE IF role(user) = "OFFICE" THEN
         \/ referrer_office_owner(leads[l].referrer) = user
         \/ leads[l].referrer = user
    ELSE FALSE

\* views.schedule_callback (POST, valid form)
schedule_callback(user, l, date, note) ==
    /\ get_lead_for_user_or_404(user, l)
    /\ schedule_callback_can_schedule(user, l)
    /\ date \in Days
    /\ note \in CallbackNotes
    /\ leads' = [leads EXCEPT ![l].callback_scheduled_date = date,
                              ![l].callback_note = note,
                              ![l].communication_status = "WAITING_FOR_CLIENT"]
    /\ UNCHANGED <<hierarchy, figures, deals>>

\* The leads of a sweep that tests the date only
callback_is_due_whatever_status(l, today) ==
    /\ leads[l] # NoLead
    /\ leads[l].callback_scheduled_date # NoDate
    /\ leads[l].callback_scheduled_date <= today

\* process_scheduled_callbacks: leads_to_process, the filter
\* callback_scheduled_date__lte=today, communication_status=WAITING_FOR_CLIENT
\* (a NULL date matches no __lte)
callback_is_due(l, today) ==
    /\ leads[l] # NoLead
    /\ leads[l].callback_scheduled_date # NoDate
    /\ leads[l].callback_scheduled_date <= today
    /\ leads[l].communication_status = "WAITING_FOR_CLIENT"

\* process_scheduled_callbacks.Command.handle, run on day today
process_scheduled_callbacks(today) ==
    /\ today \in Days
    /\ leads' = [l \in LeadIds |->
                    IF callback_is_due(l, today)
                    THEN [leads[l] EXCEPT !.communication_status = "NEW",
                                          !.callback_scheduled_date = NoDate,
                                          !.callback_note = ""]
                    ELSE leads[l]]
    /\ UNCHANGED <<hierarchy, figures, deals>>

-----------------------------------------------------------------------------
(* Deal operations *)

NewDeal(personal) ==
    [is_personal_deal |-> personal,
     commission_status |-> "PENDING",
     paid_referrer |-> FALSE,
     paid_manager |-> FALSE,
     paid_office |-> FALSE]

\* Number of Deal rows of a lead
DealCount(l) == IF deals[l] = NoDeal THEN 0 ELSE 1

\* deal_create_from_lead writing only the status, not the meeting flags
deal_create_from_lead_status_only(user, l, f_personal_deal) ==
    /\ get_lead_for_user_or_404(user, l)
    /\ IsAdvisorOrAdmin(user)
    /\ IF deals[l] # NoDeal
       THEN /\ UNCHANGED <<leads, deals>>
       ELSE /\ deals' = [deals EXCEPT ![l] = NewDeal(f_personal_deal)]
            /\ leads' = [leads EXCEPT ![l].communication_status = "DEAL_CREATED"]
    /\ UNCHANGED <<hierarchy, figures, figures>>

\* views.deal_create_from_lead (POST, valid form)
deal_create_from_lead(user, l, f_personal_deal) ==
    /\ get_lead_for_user_or_404(user, l)
    /\ IsAdvisorOrAdmin(user)
    /\ IF deals[l] # NoDeal
       THEN \* hasattr(lead, "deal"): redirect to the deals list
            /\ UNCHANGED <<leads, deals>>
       ELSE /\ deals' = [deals EXCEPT ![l] = NewDeal(f_personal_deal)]
            /\ leads' = [leads EXCEPT ![l].communication_status = "DEAL_CREATED",
                                      ![l].meeting_scheduled = TRUE,
                                      ![l].meeting_done = TRUE,
                                      ![l].meeting_done_at =
                                            IF @ = None THEN "now" ELSE @]
    /\ UNCHANGED <<hierarchy, figures, figures>>

\* views.deal_commission_ready (POST)
deal_commission_ready(user, d) ==
    /\ get_deal_for_user_or_404(user, d)
    /\ IsAdvisorOrAdmin(user)
    /\ deals' = IF deals[d].commission_status # "READY"
                THEN [deals EXCEPT ![d].commission_status = "READY"]
                ELSE deals
    /\ UNCHANGED <<hierarchy, figures, leads>>

\* views.deal_commission_paid: has_manager / has_office
has_manager(d) == referrer_manager(leads[d].referrer) # None
has_office(d) == referrer_office(leads[d].referrer) # None

\* all_paid without the manager's part
all_paid_ignoring_manager(deal, d) ==
    /\ deal.paid_referrer
    /\ (deal.paid_office \/ ~has_office(d))

\* views.deal_commission_paid: all_paid, evaluated on a Deal row
all_paid(deal, d) ==
    /\ deal.paid_referrer
    /\ (deal.paid_manager \/ ~has_manager(d))
    /\ (deal.paid_office \/ ~has_office(d))

\* models.Deal.all_commissions_paid
all_commissions_paid(d) ==
    IF ~deals[d].paid_referrer THEN FALSE
    ELSE IF referrer_manager(leads[d].referrer) # None /\ ~deals[d].paid_manager THEN FALSE
    ELSE IF referrer_office(leads[d].referrer) # None /\ ~deals[d].paid_office THEN FALSE
    ELSE TRUE

\* views.deal_commission_paid (POST)
deal_commission_paid(user, d, part) ==
    /\ get_deal_for_user_or_404(user, d)
    /\ IsAdvisorOrAdmin(user)
    /\ part \in CommissionParts
    /\ part = "manager" => has_manager(d)
    /\ part = "office" => has_office(d)
    /\ LET changed ==
               \/ part = "referrer" /\ ~deals[d].paid_referrer
               \/ part = "manager" /\ ~deals[d].paid_manager
               \/ part = "office" /\ ~deals[d].paid_office
           paid == [deals[d] EXCEPT
                        !.paid_referrer = @ \/ part = "referrer",
                        !.paid_manager = @ \/ part = "manager",
                        !.paid_office = @ \/ part = "office",
                        !.commission_status = "PAID"]
       IN  IF changed
           THEN /\ deals' = [deals EXCEPT ![d] = paid]
                /\ leads' = IF all_paid(paid, d)
                            THEN [leads EXCEPT ![d].communication_status = "COMMISSION_PAID"]
                            ELSE leads
           ELSE UNCHANGED <<leads, deals>>
    /\ UNCHANGED <<hierarchy, figures, figures>>

-----------------------------------------------------------------------------
(* The audit trail of each request: LeadNote rows, LeadHistory rows and       *)
(* notification calls.  A request is the conjunction of its effect on the     *)
(* Lead and Deal rows (above) and of its effect on the trail (below).         *)

NoNote == [absent |-> TRUE]

\* LeadNote(lead, author, is_private); the text is left out
LeadNoteRow(l, author, is_private) ==
    [lead |-> l, author |-> author, is_private |-> is_private]

\* LeadHistory(lead, event_type, note)
LeadHistoryRow(l, event_type, note) ==
    [lead |-> l, event_type |-> event_type, note |-> note]

\* notifications.send_notification_email: send_mail(fail_silently=False) runs
\* inside try/except Exception, which prints the error and returns
send_notification_email_uncaught(mail_ok) == IF mail_ok THEN "sent" ELSE "raised"

send_notification_email(mail_ok) == IF mail_ok THEN "sent" ELSE "logged"

\* The rows and calls of a request on lead l: rows is the sequence of
\* LeadHistory rows created, calls the sequence of notify_* functions called,
\* mail_ok tells whether send_mail succeeds
Emit(l, rows, calls, mail_ok) ==
    [history |-> [k \in LeadIds |->
                    IF k = l THEN [i \in DOMAIN rows |-> rows[i].event_type] ELSE <<>>],
     notifications |-> [k \in LeadIds |->
                    IF k = l
                    THEN [i \in DOMAIN calls |->
                            [call |-> calls[i], outcome |-> send_notification_email(mail_ok)]]
                    ELSE <<>>]]

\* The trail after a request on lead l that created new_notes, rows and calls
Trail(l, new_notes, rows, calls, mail_ok) ==
    /\ notes' = notes \cup new_notes
    /\ history' = history \cup {rows[i] : i \in {j \in DOMAIN rows : rows[j].note # NoNote}}
    /\ emitted' = Emit(l, rows, calls, mail_ok)
    /\ UNCHANGED <<columns, running>>

\* An optional note typed into a request: the rows it adds
OptionalNote(l, user, given) ==
    IF given THEN <<LeadHistoryRow(l, "NOTE_ADDED", LeadNoteRow(l, user, FALSE))>> ELSE <<>>

OptionalNoteRows(l, user, given) ==
    IF given THEN {LeadNoteRow(l, user, FALSE)} ELSE {}

\* views.lead_detail: the notes shown to the user
lead_detail_notes(user, l) ==
    IF IsAdminLike(user)
    THEN {n \in notes : n.lead = l}
    ELSE {n \in notes : n.lead = l /\ (~n.is_private \/ n.author = user)}

\* The history entries of a lead with no test of the linked note
lead_detail_history_unfiltered(user, l) == {h \in history : h.lead = l}

\* views.lead_detail: the history entries shown to the user (those with a note)
lead_detail_history(user, l) ==
    IF IsAdminLike(user)
    THEN {h \in history : h.lead = l}
    ELSE {h \in history :
            /\ h.lead = l
            /\ \/ h.note = NoNote
               \/ ~h.note.is_private
               \/ h.note.is_private /\ h.note.author = user}

\* views.deal_detail: notes and history are those of the deal's lead
deal_detail_notes(user, d) ==
    IF IsAdminLike(user)
    THEN {n \in notes : n.lead = d}
    ELSE {n \in notes : n.lead = d /\ (~n.is_private \/ n.author = user)}

deal_detail_history(user, d) ==
    IF IsAdminLike(user)
    THEN {h \in history : h.lead = d}
    ELSE {h \in history :
            /\ h.lead = d
            /\ \/ h.note = NoNote
               \/ ~h.note.is_private
               \/ h.note.is_private /\ h.note.author = user}

\* views.lead_detail (POST, valid LeadNoteForm): add a note to the lead
lead_detail_post(user, l, f_is_private, mail_ok) ==
    /\ get_lead_for_user_or_404(user, l)
    /\ LET note == LeadNoteRow(l, user, f_is_private)
       IN  Trail(l, {note}, <<LeadHistoryRow(l, "NOTE_ADDED", note)>>,
                 IF ~f_is_private THEN <<"notify_note_added">> ELSE <<>>, mail_ok)
    /\ UNCHANGED <<hierarchy, figures, leads, deals>>

\* views.deal_detail (POST, valid LeadNoteForm): add a note to the deal's lead
deal_detail_post(user, d, f_is_private, mail_ok) ==
    /\ get_deal_for_user_or_404(user, d)
    /\ LET note == LeadNoteRow(d, user, f_is_private)
       IN  Trail(d, {note}, <<LeadHistoryRow(d, "NOTE_ADDED", note)>>,
                 IF ~f_is_private THEN <<"notify_note_added">> ELSE <<>>, mail_ok)
    /\ UNCHANGED <<hierarchy, figures, leads, deals>>

\* views.lead_create: one CREATED row, then notify_lead_created
lead_create_trail(mail_ok) ==
    /\ \E l \in LeadIds : leads[l] = NoLead
    /\ Trail(FreeLead, {}, <<LeadHistoryRow(FreeLead, "CREATED", NoNote)>>,
             <<"notify_lead_created">>, mail_ok)

\* views.lead_edit: rows and notification only when a tracked field changed;
\* f_other_changed stands for a change of the client data or the description
lead_edit_trail(user, l, f_advisor, f_status, f_other_changed, f_extra_note, mail_ok) ==
    LET advisor == IF role(user) = "ADVISOR" THEN user ELSE f_advisor
        status_changed == leads[l].communication_status # f_status
        changes == f_other_changed \/ status_changed \/ leads[l].advisor # advisor
    IN  IF changes
        THEN Trail(l, OptionalNoteRows(l, user, f_extra_note),
                   OptionalNote(l, user, f_extra_note) \o
                   <<LeadHistoryRow(l, IF status_changed THEN "STATUS_CHANGED" ELSE "UPDATED",
                                    NoNote)>>,
                   <<"notify_lead_updated">>, mail_ok)
        ELSE Trail(l, {}, <<>>, <<>>, TRUE)

\* views.lead_schedule_meeting
lead_schedule_meeting_trail(user, l, f_meeting_note, mail_ok) ==
    Trail(l, OptionalNoteRows(l, user, f_meeting_note),
          <<LeadHistoryRow(l, "MEETING_SCHEDULED", NoNote)>> \o
          OptionalNote(l, user, f_meeting_note),
          <<"notify_meeting_scheduled">>, mail_ok)

\* views.lead_meeting_completed
lead_meeting_completed_trail(user, l, f_result_note, mail_ok) ==
    Trail(l, OptionalNoteRows(l, user, f_result_note),
          OptionalNote(l, user, f_result_note) \o
          <<LeadHistoryRow(l, "STATUS_CHANGED", NoNote)>>,
          <<"notify_meeting_completed">>, mail_ok)

\* views.lead_meeting_cancelled: no notification is called
lead_meeting_cancelled_trail(user, l, f_cancel_note) ==
    Trail(l, OptionalNoteRows(l, user, f_cancel_note),
          OptionalNote(l, user, f_cancel_note) \o
          <<LeadHistoryRow(l, "STATUS_CHANGED", NoNote)>>,
          <<>>, TRUE)

\* views.schedule_callback: the note is always created; no notification is called
schedule_callback_trail(user, l) ==
    Trail(l, OptionalNoteRows(l, user, TRUE),
          OptionalNote(l, user, TRUE) \o <<LeadHistoryRow(l, "STATUS_CHANGED", NoNote)>>,
          <<>>, TRUE)

\* process_scheduled_callbacks: per processed lead one STATUS_CHANGED row and,
\* when the lead has an advisor, notify_callback_due
process_scheduled_callbacks_trail(today, mail_ok) ==
    /\ UNCHANGED <<notes, history, columns, running>>
    /\ emitted' =
         [history |-> [l \in LeadIds |->
                         IF callback_is_due(l, today) THEN <<"STATUS_CHANGED">> ELSE <<>>],
          notifications |-> [l \in LeadIds |->
                         IF callback_is_due(l, today) /\ leads[l].advisor # None
                         THEN <<[call |-> "notify_callback_due",
                                 outcome |-> send_notification_email(mail_ok)]>>
                         ELSE <<>>]]

\* views.deal_create_from_lead
deal_create_from_lead_trail(l, mail_ok) ==
    IF deals[l] # NoDeal
    THEN Trail(l, {}, <<>>, <<>>, TRUE)
    ELSE Trail(l, {}, <<LeadHistoryRow(l, "DEAL_CREATED", NoNote),
                        LeadHistoryRow(l, "STATUS_CHANGED", NoNote)>>,
               <<"notify_deal_created">>, mail_ok)

\* views.deal_commission_ready
deal_commission_ready_trail(d, mail_ok) ==
    IF deals[d].commission_status # "READY"
    THEN Trail(d, {}, <<LeadHistoryRow(d, "UPDATED", NoNote)>>, <<"notify_commission_ready">>, mail_ok)
    ELSE Trail(d, {}, <<>>, <<>>, TRUE)

\* views.deal_commission_paid: whether the request changes a paid flag, and
\* the Deal row it saves
part_changed(d, part) ==
    \/ part = "referrer" /\ ~deals[d].paid_referrer
    \/ part = "manager" /\ ~deals[d].paid_manager
    \/ part = "office" /\ ~deals[d].paid_office

part_paid(d, part) ==
    [deals[d] EXCEPT
         !.paid_referrer = @ \/ part = "referrer",
         !.paid_manager = @ \/ part = "manager",
         !.paid_office = @ \/ part = "office",
         !.commission_status = "PAID"]

\* views.deal_commission_paid
deal_commission_paid_trail(d, part, mail_ok) ==
    IF part_changed(d, part)
    THEN Trail(d, {},
               <<LeadHistoryRow(d, "UPDATED", NoNote)>> \o
               (IF all_paid(part_paid(d, part), d)
                THEN <<LeadHistoryRow(d, "STATUS_CHANGED", NoNote)>> ELSE <<>>),
               <<"notify_commission_paid">>, mail_ok)
    ELSE Trail(d, {}, <<>>, <<>>, TRUE)

\* views.deal_commission_paid as a whole.  notify_commission_paid is called
\* after the Deal row and its UPDATED row are written and before the Lead row
\* is: an exception leaving the call ends the view there
deal_commission_paid_notifying(user, d, part, mail_ok) ==
    IF send_notification_email(mail_ok) = "raised"
    THEN /\ get_deal_for_user_or_404(user, d)
         /\ IsAdvisorOrAdmin(user)
         /\ part \in CommissionParts
         /\ part = "manager" => has_manager(d)
         /\ part = "office" => has_office(d)
         /\ part_changed(d, part)
         /\ deals' = [deals EXCEPT ![d] = part_paid(d, part)]
         /\ Trail(d, {}, <<LeadHistoryRow(d, "UPDATED", NoNote)>>,
                  <<"notify_commission_paid">>, mail_ok)
         /\ UNCHANGED <<hierarchy, figures, leads>>
    ELSE /\ deal_commission_paid(user, d, part)
         /\ deal_commission_paid_trail(d, part, mail_ok)

-----------------------------------------------------------------------------
(* Client data on the Lead and on the Deal, and deal edit *)

\* What the forms receive: a last name, a phone as typed, an e-mail
ClientNames == {"Novak", "Svoboda"}
ClientPhones == {<<"6", "0">>, <<" ", "6", "-", "0">>, <<"+", "6", " ">>}
ClientEmails == {"a@x.cz", "b@x.cz"}
ClientInputs == [name : ClientNames, phone : ClientPhones, email : ClientEmails]

Digits == {"0", "6"}

RECURSIVE lstrip(_)
lstrip(s) == IF s # <<>> /\ Head(s) = " " THEN lstrip(Tail(s)) ELSE s

RECURSIVE rstrip(_)
rstrip(s) == IF s # <<>> /\ s[Len(s)] = " " THEN rstrip(SubSeq(s, 1, Len(s) - 1)) ELSE s

\* utils.normalize_phone_number
normalize_phone_number(phone) ==
    IF phone = <<>> THEN phone
    ELSE LET stripped == rstrip(lstrip(phone))
             has_plus == stripped # <<>> /\ Head(stripped) = "+"
             normalized == SelectSeq(stripped, LAMBDA c : c \in Digits)
         IN  IF has_plus THEN <<"+">> \o normalized ELSE normalized

\* LeadForm / DealEditForm: the client columns saved from a valid form
\* (clean_client_phone normalizes the phone)
cleaned_client(f_client) ==
    [client_last_name |-> f_client.name,
     client_phone |-> normalize_phone_number(f_client.phone),
     client_email |-> f_client.email]

\* signals.sync_lead_to_deal / sync_deal_to_lead: update(client_name=...,
\* client_phone=..., client_email=...) of the other row from the saved
\* instance.  client_name is a property computed from the name columns
\* (models.Lead.client_name, models.Deal.client_name), not a column: the
\* update reaches client_phone and client_email
sync_client(target, instance) ==
    [target EXCEPT !.client_phone = instance.client_phone,
                   !.client_email = instance.client_email]

\* views.lead_create: the client columns of the new Lead
lead_create_columns(f_client) ==
    /\ lead_client' = [lead_client EXCEPT ![FreeLead] = cleaned_client(f_client)]
    /\ UNCHANGED <<deal_client, deal_status>>

\* views.lead_edit: updated_lead.save(), then sync_lead_to_deal
lead_edit_columns(l, f_client) ==
    /\ lead_client' = [lead_client EXCEPT ![l] = cleaned_client(f_client)]
    /\ deal_client' = IF deals[l] # NoDeal
                      THEN [deal_client EXCEPT ![l] = sync_client(@, cleaned_client(f_client))]
                      ELSE deal_client
    /\ UNCHANGED deal_status

\* views.deal_create_from_lead: the client columns are copied from the lead
\* (disabled form fields with the lead's values as initial), Deal.status takes
\* its default
deal_create_from_lead_columns(l) ==
    IF deals[l] # NoDeal
    THEN UNCHANGED columns
    ELSE /\ deal_client' = [deal_client EXCEPT ![l] = lead_client[l]]
         /\ deal_status' = [deal_status EXCEPT ![l] = "REQUEST_IN_BANK"]
         /\ UNCHANGED lead_client

DealStatus ==
    {"REQUEST_IN_BANK", "WAITING_FOR_APPRAISAL", "PREP_APPROVAL", "APPROVAL",
     "SIGN_PLANNING", "SIGNED", "SIGNED_NO_PROPERTY", "DRAWN", "FAILED"}

\* views.deal_edit (POST, valid DealEditForm): form.save() and
\* sync_deal_to_lead, then the view's copy to the lead, lead.save() and
\* sync_lead_to_deal
deal_edit(user, d, f_client, f_status) ==
    /\ get_deal_for_user_or_404(user, d)
    /\ IsAdvisorOrAdmin(user)
    /\ f_status \in DealStatus
    /\ LET updated == cleaned_client(f_client)
           lead_after_signal == sync_client(lead_client[d], updated)
           lead_after_view == sync_client(lead_after_signal, updated)
       IN  /\ deal_status' = [deal_status EXCEPT ![d] = f_status]
           /\ lead_client' = [lead_client EXCEPT ![d] = lead_after_view]
           /\ deal_client' = [deal_client EXCEPT ![d] = sync_client(updated, lead_after_view)]
    /\ UNCHANGED <<hierarchy, figures, leads, deals>>

-----------------------------------------------------------------------------
(* Lead edit and deal edit write by write: every save() and update() is      *)
(* committed on its own, the views open no transaction                        *)

Running(op, l) == {r \in running : r.op = op /\ r.lead = l}

\* views.lead_edit up to updated_lead.save(): the Lead row is written
lead_edit_save(user, l, f_advisor, f_referrer, f_client) ==
    /\ Running("lead_edit", l) = {}
    /\ lead_edit(user, l, f_advisor, f_referrer, FALSE, leads[l].communication_status)
    /\ lead_client' = [lead_client EXCEPT ![l] = cleaned_client(f_client)]
    /\ running' = running \cup
            {[op |-> "lead_edit", lead |-> l, instance |-> cleaned_client(f_client),
              pc |-> "saved"]}
    /\ UNCHANGED <<deal_client, deal_status, journal>>

\* signals.sync_lead_to_deal, run by the post_save of lead_edit
lead_edit_sync(l) ==
    /\ \E r \in Running("lead_edit", l) :
        /\ deal_client' = IF deals[l] # NoDeal
                          THEN [deal_client EXCEPT ![l] = sync_client(@, r.instance)]
                          ELSE deal_client
        /\ running' = running \ {r}
    /\ UNCHANGED <<hierarchy, figures, leads, deals, lead_client, deal_status, journal>>

\* views.deal_edit up to form.save(): the Deal row is written
deal_edit_save(user, d, f_client, f_status) ==
    /\ Running("deal_edit", d) = {}
    /\ get_deal_for_user_or_404(user, d)
    /\ IsAdvisorOrAdmin(user)
    /\ f_status \in DealStatus
    /\ deal_client' = [deal_client EXCEPT ![d] = cleaned_client(f_client)]
    /\ deal_status' = [deal_status EXCEPT ![d] = f_status]
    /\ running' = running \cup
            {[op |-> "deal_edit", lead |-> d, instance |-> cleaned_client(f_client),
              pc |-> "saved"]}
    /\ UNCHANGED <<hierarchy, figures, leads, deals, lead_client, journal>>

\* The next write of a running deal edit: sync_deal_to_lead (post_save of the
\* Deal), then the view's lead.save(update_fields=...), then sync_lead_to_deal
\* (post_save of the Lead)
deal_edit_write(d) ==
    /\ \E r \in Running("deal_edit", d) :
        \/ /\ r.pc = "saved"
           /\ lead_client' = [lead_client EXCEPT ![d] = sync_client(@, r.instance)]
           /\ running' = (running \ {r}) \cup {[r EXCEPT !.pc = "lead updated"]}
           /\ UNCHANGED deal_client
        \/ /\ r.pc = "lead updated"
           /\ lead_client' = [lead_client EXCEPT ![d] = sync_client(@, r.instance)]
           /\ running' = (running \ {r}) \cup {[r EXCEPT !.pc = "lead saved"]}
           /\ UNCHANGED deal_client
        \/ /\ r.pc = "lead saved"
           /\ deal_client' = [deal_client EXCEPT ![d] = sync_client(@, r.instance)]
           /\ running' = running \ {r}
           /\ UNCHANGED lead_client
    /\ UNCHANGED <<hierarchy, figures, leads, deals, deal_status, journal>>

-----------------------------------------------------------------------------
(* The requests that write a Deal row and then a Lead row, write by write     *)

\* views.deal_create_from_lead up to deal.save()
deal_create_save_deal(user, l) ==
    /\ get_lead_for_user_or_404(user, l)
    /\ IsAdvisorOrAdmin(user)
    /\ deals[l] = NoDeal
    /\ deals' = [deals EXCEPT ![l] = NewDeal(FALSE)]
    /\ deal_client' = [deal_client EXCEPT ![l] = lead_client[l]]
    /\ deal_status' = [deal_status EXCEPT ![l] = "REQUEST_IN_BANK"]
    /\ running' = running \cup
            {[op |-> "deal_create_from_lead", lead |-> l, pc |-> "deal saved"]}
    /\ UNCHANGED <<hierarchy, figures, leads, lead_client, journal>>

\* views.deal_create_from_lead: lead.save(update_fields=...)
deal_create_save_lead(l) ==
    /\ \E r \in Running("deal_create_from_lead", l) :
        running' = running \ {r}
    /\ leads' = [leads EXCEPT ![l].communication_status = "DEAL_CREATED",
                              ![l].meeting_scheduled = TRUE,
                              ![l].meeting_done = TRUE,
                              ![l].meeting_done_at = IF @ = None THEN "now" ELSE @]
    /\ UNCHANGED <<hierarchy, figures, deals, columns, journal>>

\* views.deal_commission_paid up to deal.save(update_fields=...); all_paid is
\* computed from the request's own Deal instance
deal_commission_paid_save_deal(user, d, part) ==
    /\ get_deal_for_user_or_404(user, d)
    /\ IsAdvisorOrAdmin(user)
    /\ part \in CommissionParts
    /\ part = "manager" => has_manager(d)
    /\ part = "office" => has_office(d)
    /\ part_changed(d, part)
    /\ deals' = [deals EXCEPT ![d] = part_paid(d, part)]
    /\ running' = running \cup
            {[op |-> "deal_commission_paid", lead |-> d, pc |-> "deal saved",
              all_paid |-> all_paid(part_paid(d, part), d)]}
    /\ UNCHANGED <<hierarchy, figures, leads, columns, journal>>

\* views.deal_commission_paid: if all_paid, lead.save(update_fields=...)
deal_commission_paid_save_lead(d) ==
    /\ \E r \in Running("deal_commission_paid", d) :
        /\ running' = running \ {r}
        /\ leads' = IF r.all_paid
                    THEN [leads EXCEPT ![d].communication_status = "COMMISSION_PAID"]
                    ELSE leads
    /\ UNCHANGED <<hierarchy, figures, deals, columns, journal>>

\* A running request ends with an exception: no view opens a transaction and
\* ATOMIC_REQUESTS is not set, the rows already saved stay
request_fails ==
    /\ \E r \in running : running' = running \ {r}
    /\ UNCHANGED <<hierarchy, figures, leads, deals, columns, journal>>

-----------------------------------------------------------------------------
(* Specifications *)

\* The requests as seen on the Lead and Deal rows: the audit trail is left out

LeadRequests(statuses) ==
    \/ \E user \in users :
       \E a \in LeadForm_advisor_queryset(user), r \in LeadForm_referrer_queryset(user) :
       \E p \in BOOLEAN, st \in statuses :
            lead_create(user, a, r, p, st) /\ UNCHANGED left_out
    \/ \E user \in users, l \in LeadIds :
       \E a \in LeadForm_advisor_queryset(user), r \in LeadForm_referrer_queryset(user) :
       \E p \in BOOLEAN, st \in statuses :
            lead_edit(user, l, a, r, p, st) /\ UNCHANGED left_out

MeetingRequests ==
    \/ \E user \in users, l \in LeadIds : lead_schedule_meeting(user, l) /\ UNCHANGED left_out
    \/ \E user \in users, l \in LeadIds, next_action \in ACTION_CHOICES :
            lead_meeting_completed(user, l, next_action) /\ UNCHANGED left_out
    \/ \E user \in users, l \in LeadIds : lead_meeting_cancelled(user, l) /\ UNCHANGED left_out

CallbackRequests ==
    \/ \E user \in users, l \in LeadIds, date \in Days, note \in CallbackNotes :
            schedule_callback(user, l, date, note) /\ UNCHANGED left_out
    \/ \E today \in Days : process_scheduled_callbacks(today) /\ UNCHANGED left_out

DealCreateRequests(personal) ==
    \E user \in users, l \in LeadIds, p \in personal : deal_create_from_lead(user, l, p) /\ UNCHANGED left_out

CommissionRequests ==
    \/ \E user \in users, d \in LeadIds : deal_commission_ready(user, d) /\ UNCHANGED left_out
    \/ \E user \in users, d \in LeadIds, part \in CommissionParts :
            deal_commission_paid(user, d, part) /\ UNCHANGED left_out

\* Lifecycle: every request of the lead and deal views
Next ==
    \/ LeadRequests(CommunicationStatus)
    \/ MeetingRequests
    \/ CallbackRequests
    \/ DealCreateRequests({FALSE})
    \/ CommissionRequests

Spec == Init /\ [][Next]_vars

\* Access: the requests that decide who refers, who advises and what is personal
AccessStatuses == {"NEW", "DEAL_CREATED"}

NextAccess ==
    \/ LeadRequests(AccessStatuses)
    \/ DealCreateRequests(BOOLEAN)

SpecAccess == InitAccess /\ [][NextAccess]_vars

\* Client data: the requests that write the client columns, one at a time
ClientRequests ==
    \/ \E user \in users :
       \E a \in LeadForm_advisor_queryset(user), r \in LeadForm_referrer_queryset(user) :
       \E c \in ClientInputs :
            /\ lead_create(user, a, r, FALSE, "NEW")
            /\ lead_create_columns(c)
            /\ UNCHANGED <<journal, running>>
    \/ \E user \in users, l \in LeadIds :
       \E a \in LeadForm_advisor_queryset(user), r \in LeadForm_referrer_queryset(user) :
       \E c \in ClientInputs :
            /\ lead_edit(user, l, a, r, FALSE, leads[l].communication_status)
            /\ lead_edit_columns(l, c)
            /\ UNCHANGED <<journal, running>>
    \/ \E user \in users, l \in LeadIds :
            /\ deal_create_from_lead(user, l, FALSE)
            /\ deal_create_from_lead_columns(l)
            /\ UNCHANGED <<journal, running>>
    \/ \E user \in users, d \in LeadIds, c \in ClientInputs, st \in DealStatus :
            deal_edit(user, d, c, st) /\ UNCHANGED <<journal, running>>

SpecSync == InitTrail /\ [][ClientRequests]_vars

\* Client data under concurrency: a lead edit and a deal edit of the same
\* lead, write by write
NextRace ==
    \/ \E user \in users :
       \E a \in LeadForm_advisor_queryset(user), r \in LeadForm_referrer_queryset(user) :
       \E c \in ClientInputs :
            /\ lead_create(user, a, r, FALSE, "NEW")
            /\ lead_create_columns(c)
            /\ UNCHANGED <<journal, running>>
    \/ \E user \in users, l \in LeadIds :
            /\ deal_create_from_lead(user, l, FALSE)
            /\ deal_create_from_lead_columns(l)
            /\ UNCHANGED <<journal, running>>
    \/ \E user \in users, l \in LeadIds :
       \E a \in LeadForm_advisor_queryset(user), r \in LeadForm_referrer_queryset(user) :
       \E c \in ClientInputs :
            lead_edit_save(user, l, a, r, c)
    \/ \E l \in LeadIds : lead_edit_sync(l)
    \/ \E user \in users, d \in LeadIds, c \in ClientInputs :
            deal_edit_save(user, d, c, deal_status[d])
    \/ \E d \in LeadIds : deal_edit_write(d)

SpecRace == InitTrail /\ [][NextRace]_vars

\* Atomicity: deal creation and commission payment write by write
NextAtomic ==
    \/ \E user \in users :
       \E a \in LeadForm_advisor_queryset(user), r \in LeadForm_referrer_queryset(user) :
       \E c \in ClientInputs, st \in LeadForm_status_choices(user, None) :
            /\ lead_create(user, a, r, FALSE, st)
            /\ lead_create_columns(c)
            /\ UNCHANGED <<journal, running>>
    \/ \E user \in users, l \in LeadIds : deal_create_save_deal(user, l)
    \/ \E l \in LeadIds : deal_create_save_lead(l)
    \/ \E user \in users, d \in LeadIds : deal_commission_ready(user, d) /\ UNCHANGED left_out
    \/ \E user \in users, d \in LeadIds, part \in CommissionParts :
            deal_commission_paid_save_deal(user, d, part)
    \/ \E d \in LeadIds : deal_commission_paid_save_lead(d)
    \/ request_fails

SpecAtomic == InitTrail /\ [][NextAtomic]_vars

\* The requests with their audit trail

NoteRequests ==
    \/ \E user \in users, l \in LeadIds, private \in BOOLEAN, mail_ok \in BOOLEAN :
            lead_detail_post(user, l, private, mail_ok)
    \/ \E user \in users, d \in LeadIds, private \in BOOLEAN, mail_ok \in BOOLEAN :
            deal_detail_post(user, d, private, mail_ok)

LeadCreateTrailRequests(statuses, personal) ==
    \E user \in users :
    \E a \in LeadForm_advisor_queryset(user), r \in LeadForm_referrer_queryset(user) :
    \E p \in personal, st \in statuses, mail_ok \in BOOLEAN :
        lead_create(user, a, r, p, st) /\ lead_create_trail(mail_ok)

LeadEditTrailRequests(statuses, personal) ==
    \E user \in users, l \in LeadIds :
    \E a \in LeadForm_advisor_queryset(user), r \in LeadForm_referrer_queryset(user) :
    \E p \in personal, st \in statuses, other \in BOOLEAN, note \in BOOLEAN, mail_ok \in BOOLEAN :
        lead_edit(user, l, a, r, p, st) /\ lead_edit_trail(user, l, a, st, other, note, mail_ok)

MeetingTrailRequests ==
    \/ \E user \in users, l \in LeadIds, note \in BOOLEAN, mail_ok \in BOOLEAN :
            lead_schedule_meeting(user, l) /\ lead_schedule_meeting_trail(user, l, note, mail_ok)
    \/ \E user \in users, l \in LeadIds, next_action \in ACTION_CHOICES :
       \E note \in BOOLEAN, mail_ok \in BOOLEAN :
            /\ lead_meeting_completed(user, l, next_action)
            /\ lead_meeting_completed_trail(user, l, note, mail_ok)
    \/ \E user \in users, l \in LeadIds, note \in BOOLEAN :
            lead_meeting_cancelled(user, l) /\ lead_meeting_cancelled_trail(user, l, note)

CallbackTrailRequests ==
    \/ \E user \in users, l \in LeadIds, date \in Days, note \in CallbackNotes :
            schedule_callback(user, l, date, note) /\ schedule_callback_trail(user, l)
    \/ \E today \in Days, mail_ok \in BOOLEAN :
            process_scheduled_callbacks(today) /\ process_scheduled_callbacks_trail(today, mail_ok)

DealTrailRequests ==
    \/ \E user \in users, l \in LeadIds, mail_ok \in BOOLEAN :
            deal_create_from_lead(user, l, FALSE) /\ deal_create_from_lead_trail(l, mail_ok)
    \/ \E user \in users, d \in LeadIds, mail_ok \in BOOLEAN :
            deal_commission_ready(user, d) /\ deal_commission_ready_trail(d, mail_ok)
    \/ \E user \in users, d \in LeadIds, part \in CommissionParts, mail_ok \in BOOLEAN :
            deal_commission_paid_notifying(user, d, part, mail_ok)

\* Audit trail: the lifecycle requests with their notes, history rows and
\* notifications
TrailStatuses == {"NEW", "FAILED"}

NextTrail ==
    \/ LeadCreateTrailRequests(TrailStatuses, {FALSE})
    \/ LeadEditTrailRequests(TrailStatuses, {FALSE})
    \/ MeetingTrailRequests
    \/ CallbackTrailRequests
    \/ DealTrailRequests

SpecTrail == InitTrail /\ [][NextTrail]_vars

\* Notes: the requests that add notes, on leads with and without a deal
NextNotes ==
    \/ NoteRequests
    \/ LeadCreateTrailRequests({"NEW"}, BOOLEAN)
    \/ \E user \in users, l \in LeadIds, note \in BOOLEAN, mail_ok \in BOOLEAN :
            lead_schedule_meeting(user, l) /\ lead_schedule_meeting_trail(user, l, note, mail_ok)
    \/ \E user \in users, l \in LeadIds, mail_ok \in BOOLEAN :
            deal_create_from_lead(user, l, FALSE) /\ deal_create_from_lead_trail(l, mail_ok)

SpecNotes == InitTrail /\ [][NextNotes]_vars

-----------------------------------------------------------------------------
(* Properties *)

\* C1: in every state reachable through the lead operations, every lead with
\* meeting_done = TRUE also has meeting_scheduled = TRUE.
C1_MeetingDoneImpliesScheduled ==
    \A l \in ExistingLeads : leads[l].meeting_done => leads[l].meeting_scheduled

\* C2 (lifecycle scenario), the three steps after the creation: scheduling a
\* meeting gives MEETING with meeting_scheduled; completing it with CREATE_DEAL
\* sets meeting_done and leaves MEETING; creating the deal gives DEAL_CREATED
\* with both meeting flags set.
LifecycleSteps ==
    \A l \in LeadIds :
        /\ (\E user \in users : lead_schedule_meeting(user, l))
              => /\ leads'[l].communication_status = "MEETING"
                 /\ leads'[l].meeting_scheduled
        /\ (\E user \in users : lead_meeting_completed(user, l, "CREATE_DEAL"))
              => /\ leads'[l].meeting_done
                 /\ leads'[l].communication_status = "MEETING"
        /\ (deals[l] = NoDeal /\ \E user \in users : deal_create_from_lead(user, l, FALSE))
              => /\ deals'[l] # NoDeal
                 /\ leads'[l].communication_status = "DEAL_CREATED"
                 /\ leads'[l].meeting_scheduled
                 /\ leads'[l].meeting_done

\* C2: a newly created lead has communication_status NEW, and the scenario's
\* following steps (schedule meeting, complete meeting with CREATE_DEAL,
\* create deal) have the stated outcomes.
C2_LifecycleScenario ==
    [][ /\ \A l \in LeadIds :
              (leads[l] = NoLead /\ leads'[l] # NoLead)
                  => leads'[l].communication_status = "NEW"
        /\ LifecycleSteps ]_vars

\* The part of the scenario that does not depend on the creation
C2_StepsAfterCreation == [][LifecycleSteps]_vars

\* A valid lead_edit POST on lead l, by any user with any submitted values
LeadEditStep(l) ==
    \E user \in users :
    \E a \in LeadForm_advisor_queryset(user), r \in LeadForm_referrer_queryset(user) :
    \E p \in BOOLEAN, st \in CommunicationStatus :
        lead_edit(user, l, a, r, p, st)

\* C3: for every role and every submitted value, after lead_edit the lead's
\* communication_status is DEAL_CREATED or COMMISSION_PAID only if it already
\* had that same value before the edit.
C3_EditNeverSetsAutomaticStatus ==
    [][ \A l \in LeadIds :
            (LeadEditStep(l) /\ leads'[l].communication_status \in AutomaticStatus)
                => leads'[l].communication_status = leads[l].communication_status ]_vars

\* C4: in every reachable state of a deal, if any of paid_referrer,
\* paid_manager or paid_office is true then commission_status is PAID.
C4_PaidFlagImpliesStatusPaid ==
    \A d \in ExistingDeals :
        (deals[d].paid_referrer \/ deals[d].paid_manager \/ deals[d].paid_office)
            => deals[d].commission_status = "PAID"

\* A deal_commission_paid POST on deal d, by any user for any part
CommissionPaidStep(d) ==
    \E user \in users, part \in CommissionParts : deal_commission_paid(user, d, part)

C6_CreateDealAddsAnotherDeal ==
    \A l \in ExistingDeals :
        ENABLED (\E user \in users, p \in BOOLEAN :
                    /\ deal_create_from_lead(user, l, p)
                    /\ DealCount(l)' = DealCount(l) + 1)

\* C7: for every user and every lead, get_lead_for_user_or_404 admits the
\* lead exactly when the lead is in LeadAccessService.get_leads_queryset(user).
C7_DetailAccessEqualsService ==
    \A user \in users, l \in ExistingLeads :
        get_lead_for_user_or_404(user, l) <=> l \in get_leads_queryset(user)

\* C8: for every REFERRER_MANAGER or OFFICE user, no lead with
\* is_personal_contact = TRUE is in the user's lead queryset (the service's
\* queryset and the lead list), whatever the hierarchy says about its referrer.
C8_NoPersonalContactForStructure ==
    \A user \in users :
        role(user) \in {"REFERRER_MANAGER", "OFFICE"} =>
            \A l \in get_leads_queryset(user) \cup my_leads(user) :
                ~leads[l].is_personal_contact

\* C8 witness: a personal contact whose referrer is managed by M, in the office
\* owned by O, so that the hierarchy alone would show it to both
C8_Witness ==
    \E l \in ExistingLeads :
        /\ leads[l].is_personal_contact
        /\ referrer_manager(leads[l].referrer) = "M"
        /\ referrer_office_owner(leads[l].referrer) = "O"
        /\ l \notin get_leads_queryset("M") \cup get_leads_queryset("O")

\* C9: for every REFERRER, REFERRER_MANAGER or OFFICE user, no deal with
\* is_personal_deal = TRUE is visible to that user in the deal queryset, in
\* the deals list or in deal detail.
C9_NoPersonalDealForStructure ==
    \A user \in users :
        role(user) \in {"REFERRER", "REFERRER_MANAGER", "OFFICE"} =>
            \A d \in ExistingDeals :
                deals[d].is_personal_deal =>
                    /\ d \notin get_deals_queryset(user)
                    /\ d \notin deals_list(user)
                    /\ ~get_deal_for_user_or_404(user, d)

\* The advisors with has_admin_access
AdminAccessAdvisors == {a \in users : role(a) = "ADVISOR" /\ has_admin_access(a)}

\* In the lead list (the view's and the service's) and in lead detail
SeesLead(a, l) ==
    /\ l \in my_leads(a)
    /\ l \in get_leads_queryset(a)
    /\ get_lead_for_user_or_404(a, l)

\* Every lead whose referrer's pool contains a is seen by a
SeesPoolLeads(a) ==
    \A l \in ExistingLeads : a \in Pool(leads[l].referrer) => SeesLead(a, l)

ScheduleCallbackPermitted(user, l) ==
    /\ get_lead_for_user_or_404(user, l)
    /\ schedule_callback_can_schedule(user, l)

\* C11: scheduling a callback is permitted exactly for superuser/ADMIN, the
\* assigned ADVISOR, the REFERRER of the lead, the REFERRER_MANAGER who manages
\* the referrer or is the referrer, the OFFICE user who owns the office above
\* the referrer's manager or is the referrer; the gate of the schedule_callback
\* view decides as LeadAccessService.can_schedule_callback for every user and lead.
C11_CallbackGateEqualsService ==
    \A user \in users, l \in ExistingLeads :
        ScheduleCallbackPermitted(user, l) <=> can_schedule_callback(user, l)

\* C12: a user who is neither superuser/ADMIN nor the author of a private note
\* never gets that note, nor a history entry linked to it, from lead detail or
\* deal detail; and adding a private note calls no notification.
PrivateNoteHidden(shown_notes, shown_history, user) ==
    /\ \A n \in shown_notes : n.is_private => n.author = user
    /\ \A h \in shown_history : (h.note # NoNote /\ h.note.is_private) => h.note.author = user

C12_PrivateNotesOnlyForAuthorAndAdmins ==
    /\ [](\A user \in users, l \in LeadIds :
            ~IsAdminLike(user) =>
                /\ PrivateNoteHidden(lead_detail_notes(user, l),
                                     lead_detail_history(user, l), user)
                /\ PrivateNoteHidden(deal_detail_notes(user, l),
                                     deal_detail_history(user, l), user))
    /\ [][\A user \in users, l \in LeadIds, mail_ok \in BOOLEAN :
            (lead_detail_post(user, l, TRUE, mail_ok) \/ deal_detail_post(user, l, TRUE, mail_ok))
                => emitted'.notifications[l] = <<>>]_vars

\* A private note and its history entry exist on a lead with a deal, and another
\* user who is not an admin can open that lead and that deal
C12_Witness ==
    \E n \in notes, user \in users :
        /\ n.is_private
        /\ LeadHistoryRow(n.lead, "NOTE_ADDED", n) \in history
        /\ ~IsAdminLike(user)
        /\ user # n.author
        /\ get_lead_for_user_or_404(user, n.lead)
        /\ get_deal_for_user_or_404(user, n.lead)
        /\ lead_detail_notes(user, n.lead) # {}

\* C13: after a lead edit or a deal edit has completed, one at a time, the
\* client name, phone and e-mail stored on the lead and on its deal are equal
\* and are the values written by that edit.
LeadEditOf(l, c) ==
    \E user \in users :
    \E a \in LeadForm_advisor_queryset(user), r \in LeadForm_referrer_queryset(user) :
        lead_edit(user, l, a, r, FALSE, leads[l].communication_status) /\ lead_edit_columns(l, c)

DealEditOf(d, c) == \E user \in users, st \in DealStatus : deal_edit(user, d, c, st)

C13_ClientDataSynced ==
    [][\A l \in LeadIds, c \in ClientInputs :
        (deals[l] # NoDeal /\ (LeadEditOf(l, c) \/ DealEditOf(l, c)))
            => /\ lead_client'[l] = cleaned_client(c)
               /\ deal_client'[l] = cleaned_client(c)]_vars

\* C14: whatever the interleaving of the writes of a lead edit and of a deal
\* edit of the same lead, once both edits have finished the client data on the
\* lead and on the deal are equal.  Stated for the phone and the e-mail, the
\* columns that both propagation writes reach.
C14_RaceEndsSynced ==
    \A l \in LeadIds :
        (deals[l] # NoDeal /\ running = {}) =>
            /\ lead_client[l].client_phone = deal_client[l].client_phone
            /\ lead_client[l].client_email = deal_client[l].client_email

\* C15: create_deal and mark_commission_paid are atomic: in no reachable state,
\* a failure between the writes and the view of a concurrent request included,
\* is the Deal write applied without its Lead write: a lead with a deal has
\* its meeting flags set, and a lead whose commissions are all paid has the
\* status COMMISSION_PAID.
C15_DealAndLeadWrittenTogether ==
    \A l \in LeadIds :
        deals[l] # NoDeal =>
            /\ leads[l].meeting_scheduled /\ leads[l].meeting_done
            /\ all_paid(deals[l], l) => leads[l].communication_status = "COMMISSION_PAID"

\* C16: a failed notification is not fatal: when the send of a lifecycle
\* mutator's notification fails, the mutator's state transition and its
\* LeadHistory rows are committed as they are when the send succeeds.
Rows(l) == {emitted.history[l][i] : i \in DOMAIN emitted.history[l]}

TransitionCommitted(call, l) ==
    CASE call = "notify_lead_created" -> leads[l] # NoLead /\ "CREATED" \in Rows(l)
      [] call = "notify_lead_updated" -> Rows(l) \cap {"STATUS_CHANGED", "UPDATED"} # {}
      [] call = "notify_meeting_scheduled" ->
            /\ leads[l].communication_status = "MEETING"
            /\ leads[l].meeting_scheduled
            /\ "MEETING_SCHEDULED" \in Rows(l)
      [] call = "notify_meeting_completed" ->
            /\ leads[l].meeting_done
            /\ "STATUS_CHANGED" \in Rows(l)
      [] call = "notify_deal_created" ->
            /\ deals[l] # NoDeal
            /\ leads[l].communication_status = "DEAL_CREATED"
            /\ {"DEAL_CREATED", "STATUS_CHANGED"} \subseteq Rows(l)
      [] call = "notify_commission_ready" ->
            /\ deals[l].commission_status = "READY"
            /\ "UPDATED" \in Rows(l)
      [] call = "notify_commission_paid" ->
            /\ deals[l].commission_status = "PAID"
            /\ "UPDATED" \in Rows(l)
            /\ all_paid(deals[l], l) =>
                    /\ leads[l].communication_status = "COMMISSION_PAID"
                    /\ "STATUS_CHANGED" \in Rows(l)
      [] call = "notify_callback_due" ->
            /\ leads[l].communication_status = "NEW"
            /\ leads[l].callback_scheduled_date = NoDate
            /\ "STATUS_CHANGED" \in Rows(l)

MutatorCall(l) ==
    \E user \in users :
        \/ \E note \in BOOLEAN, mail_ok \in BOOLEAN :
                /\ lead_schedule_meeting(user, l)
                /\ lead_schedule_meeting_trail(user, l, note, mail_ok)
        \/ \E next_action \in ACTION_CHOICES, note \in BOOLEAN, mail_ok \in BOOLEAN :
                /\ lead_meeting_completed(user, l, next_action)
                /\ lead_meeting_completed_trail(user, l, note, mail_ok)
        \/ \E note \in BOOLEAN :
                lead_meeting_cancelled(user, l) /\ lead_meeting_cancelled_trail(user, l, note)
        \/ \E date \in Days, note \in CallbackNotes :
                schedule_callback(user, l, date, note) /\ schedule_callback_trail(user, l)
        \/ \E mail_ok \in BOOLEAN :
                /\ deals[l] = NoDeal
                /\ deal_create_from_lead(user, l, FALSE)
                /\ deal_create_from_lead_trail(l, mail_ok)
        \/ \E mail_ok \in BOOLEAN :
                /\ deal_commission_ready(user, l)
                /\ deals[l].commission_status # "READY"
                /\ deal_commission_ready_trail(l, mail_ok)
        \/ \E part \in CommissionParts, mail_ok \in BOOLEAN :
                /\ deal_commission_paid_notifying(user, l, part, mail_ok)
                /\ part_changed(l, part)

C17_MutatorsWriteHistoryAndNotify ==
    [][\A l \in LeadIds :
        MutatorCall(l) => /\ emitted'.history[l] # <<>>
                          /\ emitted'.notifications[l] # <<>>]_vars

\* C18: schedule_callback sets WAITING_FOR_CLIENT and stores the callback date
\* and note; a sweep run on day t sets to NEW and clears the callback date and
\* note of exactly the leads that are WAITING_FOR_CLIENT with a callback date
\* <= t, appends one LeadHistory row for each of them, and leaves every other
\* lead unchanged.
SweptOn(today) ==
    \E mail_ok \in BOOLEAN :
        process_scheduled_callbacks(today) /\ process_scheduled_callbacks_trail(today, mail_ok)

C19_FailedIsTerminal ==
    [][\A l \in LeadIds :
        (leads[l] # NoLead /\ leads[l].communication_status = "FAILED")
            => leads'[l].communication_status = "FAILED"]_vars

\* C20: every change of a deal's status made through deal edit moves it forward
\* in the order REQUEST_IN_BANK, WAITING_FOR_APPRAISAL, PREP_APPROVAL, APPROVAL,
\* SIGN_PLANNING, {SIGNED, SIGNED_NO_PROPERTY}, DRAWN, or moves it to FAILED
\* from a non-terminal state; it never moves backward and never changes once
\* it is DRAWN or FAILED.
DealStatusOrder ==
    <<{"REQUEST_IN_BANK"}, {"WAITING_FOR_APPRAISAL"}, {"PREP_APPROVAL"}, {"APPROVAL"},
      {"SIGN_PLANNING"}, {"SIGNED", "SIGNED_NO_PROPERTY"}, {"DRAWN"}>>

DealStatusRank(st) == CHOOSE i \in DOMAIN DealStatusOrder : st \in DealStatusOrder[i]

DealStatusTerminal == {"DRAWN", "FAILED"}

C20_DealStatusLinear ==
    [][\A d \in LeadIds :
        (deals[d] # NoDeal /\ deal_status'[d] # deal_status[d]) =>
            /\ deal_status[d] \notin DealStatusTerminal
            /\ \/ deal_status'[d] = "FAILED"
               \/ DealStatusRank(deal_status'[d]) > DealStatusRank(deal_status[d])]_vars

-----------------------------------------------------------------------------
(* The repair of the meeting flags *)

\* fix_meeting_stats: the leads collected by the first loop
leads_to_fix(lead_rows, deal_rows) ==
    {l \in LeadIds :
        /\ lead_rows[l] # NoLead
        /\ deal_rows[l] # NoDeal
        /\ (~lead_rows[l].meeting_scheduled \/ ~lead_rows[l].meeting_done)}

\* The repair assigning meeting_done only
fix_lead_meeting_done_only(lead) ==
    [lead EXCEPT !.meeting_done = TRUE,
                 !.meeting_done_at = IF @ = None THEN "updated_at" ELSE @]

\* fix_meeting_stats: the assignments of the second loop to one lead
fix_lead(lead) ==
    [lead EXCEPT !.meeting_scheduled = TRUE,
                 !.meeting_done = TRUE,
                 !.meeting_done_at = IF @ = None THEN "updated_at" ELSE @]

\* The Lead table after one run of fix_meeting_stats; confirmed is the
\* answer "ano" at the prompt, or --yes for the management command
fix_meeting_stats_leads(lead_rows, deal_rows, confirmed) ==
    IF leads_to_fix(lead_rows, deal_rows) = {} \/ ~confirmed
    THEN lead_rows
    ELSE [l \in LeadIds |->
            IF l \in leads_to_fix(lead_rows, deal_rows)
            THEN fix_lead(lead_rows[l])
            ELSE lead_rows[l]]

\* Command.handle / fix_meeting_stats(): one run; each lead.save(update_fields)
\* is followed by sync_lead_to_deal
fix_meeting_stats(confirmed) ==
    /\ leads' = fix_meeting_stats_leads(leads, deals, confirmed)
    /\ deal_client' =
            IF confirmed
            THEN [l \in LeadIds |->
                    IF l \in leads_to_fix(leads, deals)
                    THEN sync_client(deal_client[l], lead_client[l])
                    ELSE deal_client[l]]
            ELSE deal_client
    /\ UNCHANGED <<hierarchy, figures, deals, lead_client, deal_status, journal, running>>

\* The Lead rows a database can hold
LeadRows ==
    [referrer : {"R"},
     advisor : {"A"},
     is_personal_contact : BOOLEAN,
     communication_status : CommunicationStatus,
     meeting_scheduled : BOOLEAN,
     meeting_done : BOOLEAN,
     meeting_done_at : {None, "now"},
     callback_scheduled_date : {NoDate},
     callback_note : {""}]

\* The client columns a row can hold
ClientRows ==
    {cleaned_client(c) : c \in {ci \in ClientInputs : ci.name = "Novak" /\ ci.phone = <<"6", "0">>}}

\* Any database state: a lead or none, with or without a deal, its flags in
\* any combination
InitRepair ==
    /\ \E h \in TrailHierarchies : InitHierarchy(h)
    /\ leads \in [LeadIds -> {NoLead} \cup LeadRows]
    /\ deals \in [LeadIds -> {NoDeal, NewDeal(FALSE)}]
    /\ \A l \in LeadIds : deals[l] # NoDeal => leads[l] # NoLead
    /\ lead_client \in [LeadIds -> {NoClient} \cup ClientRows]
    /\ \A l \in LeadIds : (lead_client[l] = NoClient) <=> (leads[l] = NoLead)
    /\ deal_client \in [LeadIds -> {NoClient} \cup ClientRows]
    /\ \A l \in LeadIds : (deal_client[l] = NoClient) <=> (deals[l] = NoDeal)
    /\ deal_status = [l \in LeadIds |-> IF deals[l] = NoDeal THEN None ELSE "REQUEST_IN_BANK"]
    /\ notes = {}
    /\ history = {}
    /\ emitted = NothingEmitted
    /\ running = {}
    /\ InitFigures

NextRepair == \E confirmed \in BOOLEAN : fix_meeting_stats(confirmed)

SpecRepair == InitRepair /\ [][NextRepair]_vars

\* A confirmed run of the repair
RepairRun == fix_meeting_stats(TRUE)

\* C22: from any database state, the Lead table after two confirmed runs of
\* the repair equals the table after one; a confirmed run leaves every lead
\* that has a deal with both meeting flags true, and leaves unchanged every
\* lead that has no deal or already has both flags.
C22_RepairIdempotent ==
    /\ [](fix_meeting_stats_leads(fix_meeting_stats_leads(leads, deals, TRUE), deals, TRUE)
            = fix_meeting_stats_leads(leads, deals, TRUE))
    /\ [][ RepairRun =>
            /\ \A l \in LeadIds :
                    deals'[l] # NoDeal =>
                        leads'[l].meeting_scheduled /\ leads'[l].meeting_done
            /\ \A l \in LeadIds :
                    (deals[l] = NoDeal
                        \/ (leads[l].meeting_scheduled /\ leads[l].meeting_done))
                    => leads'[l] = leads[l]
            /\ fix_meeting_stats_leads(leads', deals', TRUE) = leads'
       ]_vars

\* C22 witness: a lead with a deal that had meeting_done without
\* meeting_done_at, repaired by a run
C22_Witness ==
    \E l \in LeadIds :
        /\ deals[l] # NoDeal
        /\ leads[l].meeting_scheduled /\ leads[l].meeting_done
        /\ leads[l].meeting_done_at = "updated_at"

-----------------------------------------------------------------------------
(* Commission figures *)

\* Decimal arithmetic.  A decimal is held as a fraction <<numerator,
\* denominator>> in lowest terms with a positive denominator; at the
\* magnitudes explored here Python's Decimal (28 significant digits) is exact,
\* so products and quotients are the exact ones

Abs(x) == IF x < 0 THEN -x ELSE x

RECURSIVE GCD(_, _)
GCD(a, b) == IF b = 0 THEN a ELSE GCD(b, a % b)

Decimal(n, d) == LET g == GCD(Abs(n), d) IN <<n \div g, d \div g>>

\* Decimal.__mul__; common factors are cancelled before multiplying
DecimalMul(x, y) ==
    LET g1 == GCD(Abs(x[1]), y[2])
        g2 == GCD(Abs(y[1]), x[2])
    IN <<(x[1] \div g1) * (y[1] \div g2), (x[2] \div g2) * (y[2] \div g1)>>

\* Decimal.__truediv__ by a positive integer
DecimalDiv(x, k) == DecimalMul(x, Decimal(1, k))

DecimalLeq(x, y) == x[1] * y[2] <= y[1] * x[2]

\* A conversion rounding to the nearest integer, halves upwards
int_rounding(x) == (2 * x[1] + x[2]) \div (2 * x[2])

\* int() of a Decimal: the fraction is dropped, towards zero
int(x) == IF x[1] >= 0 THEN x[1] \div x[2] ELSE -((-x[1]) \div x[2])

\* math.floor: towards minus infinity
floor(x) == x[1] \div x[2]

\* The value of a percentage column (two decimal places)
pct(hundredths) == Decimal(hundredths, 100)

\* Deal.calculate_commission_parts: commission_base.  The product
\* commission_total_per_million * loan_amount is divided by 1_000_000; the
\* division is taken first here, which gives the same exact value
commission_base(d) ==
    DecimalMul(Decimal(commission[leads[d].referrer].commission_total_per_million, 1),
               DecimalDiv(Decimal(loan_amount[d], 1), 1000000))

NoCommission == [referrer |-> 0, manager |-> 0, office |-> 0, total |-> 0]

\* Deal.calculate_commission_parts
calculate_commission_parts(d) ==
    LET referrer == leads[d].referrer
    IN  IF leads[d].is_personal_contact THEN NoCommission
        ELSE IF referrer = None \/ loan_amount[d] = NoLoan
        THEN NoCommission
        ELSE LET commission_referrer ==
                    int(DecimalMul(commission_base(d),
                            DecimalDiv(pct(commission[referrer].commission_referrer_pct), 100)))
                 commission_manager ==
                    int(DecimalMul(commission_base(d),
                            DecimalDiv(pct(commission[referrer].commission_manager_pct), 100)))
                 commission_office ==
                    int(DecimalMul(commission_base(d),
                            DecimalDiv(pct(commission[referrer].commission_office_pct), 100)))
             IN [referrer |-> commission_referrer,
                 manager |-> commission_manager,
                 office |-> commission_office,
                 total |-> commission_referrer + commission_manager + commission_office]

\* The office owner above a manager (manager_profile.office.owner)
office_owner_of(manager) ==
    IF manager_profile[manager] = None THEN None
    ELSE office_owner[manager_profile[manager]]

\* Deal.get_own_commission
get_own_commission(d, user) ==
    IF user = None THEN 0
    ELSE
    LET parts == calculate_commission_parts(d)
        referrer == leads[d].referrer
    IN  IF role(referrer) = "REFERRER"
        THEN IF user = referrer THEN parts.referrer
             ELSE IF user = referrer_manager(referrer) THEN parts.manager
             ELSE IF /\ referrer_manager(referrer) # None
                     /\ user = office_owner_of(referrer_manager(referrer))
                  THEN parts.office
             ELSE 0
        ELSE IF role(referrer) = "REFERRER_MANAGER"
        THEN IF user = referrer THEN parts.referrer + parts.manager
             ELSE IF user = office_owner_of(referrer) THEN parts.office
             ELSE 0
        ELSE IF role(referrer) = "OFFICE"
        THEN IF user = referrer
             THEN parts.referrer + parts.manager + parts.office
             ELSE 0
        ELSE 0

\* views.deal_detail (GET): the commission figures put on the page
deal_detail(user, d) ==
    /\ get_deal_for_user_or_404(user, d)
    /\ shown' = [user |-> user,
                 deal |-> d,
                 parts |-> calculate_commission_parts(d),
                 user_own_commission |-> get_own_commission(d, user)]
    /\ UNCHANGED <<hierarchy, leads, deals, left_out, commission, loan_amount, created_at, change_log>>

\* The reference data explored by the commission specification: the referrer
\* R without manager, under the manager M or under the office user O; M and O
\* with or without an office; the office with or without O as owner
CommissionHierarchies ==
    {Hierarchy(UserNames, rp, mp, oo) :
        rp \in {[u \in UserNames |-> IF u = "R" THEN pr ELSE NoProfile] :
                    pr \in ReferrerProfileRows({None, "M", "O"}, {{"A"}})},
        mp \in {[u \in UserNames |-> IF u = "M" THEN x ELSE IF u = "O" THEN y ELSE None] :
                    x \in {None, "off"}, y \in {None, "off"}},
        oo \in {[o \in Offices |-> x] : x \in {None, "O"}}}

\* commission_total_per_million of the referrer
RateValues == {7000}

\* loan_amount of the deal: nothing, a small loan, two million
LoanValues == {NoLoan, 1500, 2000000}

\* The three percentages in hundredths: 90/10/0, 50/30/20, thirds, and a
\* negative manager share (the columns take any decimal of five digits)
PctValues == {<<9000, 1000, 0>>, <<5000, 3000, 2000>>, <<3333, 3333, 3333>>,
              <<10500, -500, 0>>}

CommissionRow(rate, p) ==
    [commission_total_per_million |-> rate,
     commission_referrer_pct |-> p[1],
     commission_manager_pct |-> p[2],
     commission_office_pct |-> p[3]]

\* One lead with its deal, for each referrer role, rate, loan and percentages
InitCommission ==
    /\ \E h \in CommissionHierarchies : InitHierarchy(h)
    /\ \E ref \in {"R", "M", "O", "A"}, personal \in BOOLEAN :
            leads = [l \in LeadIds |->
                        [NewLead(ref, "A", personal, "DEAL_CREATED") EXCEPT
                            !.meeting_scheduled = TRUE,
                            !.meeting_done = TRUE,
                            !.meeting_done_at = "now"]]
    /\ deals = [l \in LeadIds |-> NewDeal(FALSE)]
    /\ \E rate \in RateValues, p \in PctValues :
            commission = [u \in UserNames |->
                            IF \E l \in LeadIds : leads[l].referrer = u
                            THEN CommissionRow(rate, p)
                            ELSE DefaultCommission]
    /\ loan_amount \in [LeadIds -> LoanValues]
    /\ created_at = [l \in LeadIds |-> [lead |-> NoDate, deal |-> NoDate]]
    /\ shown = NoPage
    /\ InitChangeLog
    /\ notes = {}
    /\ history = {}
    /\ emitted = NothingEmitted
    /\ lead_client = [l \in LeadIds |-> NoClient]
    /\ deal_client = [l \in LeadIds |-> NoClient]
    /\ deal_status = [l \in LeadIds |-> "REQUEST_IN_BANK"]
    /\ running = {}

NextCommission == \E user \in users, d \in LeadIds : deal_detail(user, d)

SpecCommission == InitCommission /\ [][NextCommission]_vars

\* The deals on which calculate_commission_parts returns zeros outright
ZeroCase(d) ==
    leads[d].is_personal_contact \/ leads[d].referrer = None \/ loan_amount[d] = NoLoan

\* base * pct / 100 for one of the referrer's three percentages
Share(d, hundredths) == DecimalDiv(DecimalMul(commission_base(d), pct(hundredths)), 100)

C24_SplitConserved ==
    \A d \in ExistingDeals :
        LET c == commission[leads[d].referrer]
            parts == calculate_commission_parts(d)
        IN  c.commission_referrer_pct + c.commission_manager_pct
                + c.commission_office_pct <= 100 * 100
            => /\ parts.referrer + parts.manager + parts.office = parts.total
               /\ DecimalLeq(Decimal(parts.total, 1), commission_base(d))

\* The users who take a share of deal d: the referrer, the referrer's manager
\* and the owner of the manager's office, where there are such
Receivers(d) ==
    LET referrer == leads[d].referrer
        above == IF role(referrer) = "REFERRER"
                 THEN {referrer_manager(referrer), referrer_office_owner(referrer)}
                 ELSE IF role(referrer) = "REFERRER_MANAGER"
                 THEN {office_owner_of(referrer)}
                 ELSE {}
    IN ({referrer} \cup above) \ {None}

RECURSIVE SumOwn(_, _)
SumOwn(d, receivers) ==
    IF receivers = {} THEN 0
    ELSE LET u == CHOOSE x \in receivers : TRUE
         IN get_own_commission(d, u) + SumOwn(d, receivers \ {u})

\* C25: for a deal whose referrer is a REFERRER, a REFERRER_MANAGER or an
\* OFFICE user, the own commissions of the referrer, the manager and the
\* office owner (those that exist) sum to the total of
\* calculate_commission_parts, and every other user's own commission is 0.
C25_OwnCommissionsCoverTotal ==
    \A d \in ExistingDeals :
        role(leads[d].referrer) \in {"REFERRER", "REFERRER_MANAGER", "OFFICE"}
        => /\ SumOwn(d, Receivers(d)) = calculate_commission_parts(d).total
           /\ \A u \in users \ Receivers(d) : get_own_commission(d, u) = 0

-----------------------------------------------------------------------------
(* Advisor statistics *)

\* A database scalar: NULL, or an integer
Null == <<>>
Scalar(n) == <<n>>

\* Deal.status values counted as completed
COMPLETED_DEAL_STATUSES == {"DRAWN", "SIGNED", "SIGNED_NO_PROPERTY"}

\* UserStatsService.apply_date_filter on rows keyed by lead id; NoDate stands
\* for a date that was not given
apply_date_filter(rows, day_of, date_from, date_to) ==
    {l \in rows :
        /\ date_from # NoDate => day_of[l] >= date_from
        /\ date_to # NoDate => day_of[l] < date_to + 1}

\* Lead.objects.filter(advisor=advisor).exclude(is_personal_contact=True,
\* referrer=advisor), date-filtered
advisor_leads(advisor, date_from, date_to) ==
    apply_date_filter(
        {l \in ExistingLeads :
            /\ leads[l].advisor = advisor
            /\ ~(leads[l].is_personal_contact /\ leads[l].referrer = advisor)},
        [l \in LeadIds |-> created_at[l].lead], date_from, date_to)

\* Deal.objects.filter(lead__advisor=advisor).exclude(personal contact of the
\* advisor | is_personal_deal), date-filtered; the leads of these deals
advisor_deals(advisor, date_from, date_to) ==
    apply_date_filter(
        {d \in ExistingDeals :
            /\ leads[d].advisor = advisor
            /\ ~((leads[d].is_personal_contact /\ leads[d].referrer = advisor)
                    \/ deals[d].is_personal_deal)},
        [l \in LeadIds |-> created_at[l].deal], date_from, date_to)

\* UserStatsService.get_advisor_stats_detailed: the five counts shared with
\* the bulk query
get_advisor_stats_detailed(advisor, date_from, date_to) ==
    LET leads_qs == advisor_leads(advisor, date_from, date_to)
        deals_qs == advisor_deals(advisor, date_from, date_to)
    IN [leads_received |-> Cardinality(leads_qs),
        meetings_planned |-> Cardinality({l \in leads_qs : leads[l].meeting_scheduled}),
        meetings_done |-> Cardinality({l \in leads_qs : leads[l].meeting_done}),
        deals_created |-> Cardinality(deals_qs),
        deals_completed |->
            Cardinality({d \in deals_qs : deal_status[d] \in COMPLETED_DEAL_STATUSES})]

\* Subquery(qs.values(group).annotate(count=Count(...)).values('count')[:1]):
\* the count of the one group, NULL when the group has no row
SubqueryCount(rows) == IF rows = {} THEN Null ELSE Scalar(Cardinality(rows))

\* UserStatsService.get_advisors_with_stats: the annotations of one advisor
get_advisors_with_stats(advisor, date_from, date_to) ==
    LET lead_subquery == advisor_leads(advisor, date_from, date_to)
        deal_subquery == advisor_deals(advisor, date_from, date_to)
    IN [leads_received |-> SubqueryCount(lead_subquery),
        meetings_planned |->
            SubqueryCount({l \in lead_subquery : leads[l].meeting_scheduled}),
        meetings_done |-> SubqueryCount({l \in lead_subquery : leads[l].meeting_done}),
        deals_created |-> SubqueryCount(deal_subquery),
        deals_completed |->
            SubqueryCount({d \in deal_subquery :
                                deal_status[d] \in COMPLETED_DEAL_STATUSES})]

\* A call of get_advisor_stats_detailed
advisor_stats_detailed(advisor, date_from, date_to) ==
    /\ role(advisor) = "ADVISOR"
    /\ shown' = [advisor |-> advisor, date_from |-> date_from, date_to |-> date_to,
                 detailed |-> get_advisor_stats_detailed(advisor, date_from, date_to)]
    /\ UNCHANGED <<hierarchy, leads, deals, left_out, commission, loan_amount, created_at, change_log>>

\* A call of get_advisors_with_stats: one annotated row for each advisor
advisors_with_stats(date_from, date_to) ==
    /\ shown' = [date_from |-> date_from, date_to |-> date_to,
                 bulk |-> [a \in Advisors |->
                            get_advisors_with_stats(a, date_from, date_to)]]
    /\ UNCHANGED <<hierarchy, leads, deals, left_out, commission, loan_amount, created_at, change_log>>

\* The reference data of the statistics: the advisors A and B serve R
StatsHierarchies ==
    {Hierarchy(UserNames,
               [u \in UserNames |-> IF u = "R" THEN pr ELSE NoProfile],
               [u \in UserNames |-> None], [o \in Offices |-> None]) :
        pr \in ReferrerProfileRows({None}, {{"A", "B"}})}

\* The Lead rows of the statistics: any advisor or none, sent by R or by the
\* advisor A, any flags
StatsLeadRows ==
    {[NewLead(ref, adv, personal, "NEW") EXCEPT
            !.meeting_scheduled = ms, !.meeting_done = md] :
        ref \in {"R", "A"}, adv \in {None, "A", "B"},
        personal \in BOOLEAN, ms \in BOOLEAN, md \in BOOLEAN}

\* Any leads and deals, created on any days
InitStats ==
    /\ \E h \in StatsHierarchies : InitHierarchy(h)
    /\ leads \in [LeadIds -> {NoLead} \cup StatsLeadRows]
    /\ deals \in [LeadIds -> {NoDeal, NewDeal(FALSE), NewDeal(TRUE)}]
    /\ \A l \in LeadIds : deals[l] # NoDeal => leads[l] # NoLead
    /\ deal_status \in [LeadIds -> {None, "REQUEST_IN_BANK", "DRAWN"}]
    /\ \A l \in LeadIds : (deal_status[l] = None) <=> (deals[l] = NoDeal)
    /\ created_at \in [LeadIds -> [lead : Days \cup {NoDate}, deal : Days \cup {NoDate}]]
    /\ \A l \in LeadIds :
            /\ (created_at[l].lead = NoDate) <=> (leads[l] = NoLead)
            /\ (created_at[l].deal = NoDate) <=> (deals[l] = NoDeal)
            /\ deals[l] # NoDeal => created_at[l].lead <= created_at[l].deal
    /\ commission = [u \in UserNames |-> DefaultCommission]
    /\ loan_amount = [l \in LeadIds |-> NoLoan]
    /\ shown = NoPage
    /\ InitChangeLog
    /\ notes = {}
    /\ history = {}
    /\ emitted = NothingEmitted
    /\ lead_client = [l \in LeadIds |-> NoClient]
    /\ deal_client = [l \in LeadIds |-> NoClient]
    /\ running = {}

NextStats ==
    \/ \E a \in Advisors, date_from \in Days \cup {NoDate}, date_to \in Days \cup {NoDate} :
            advisor_stats_detailed(a, date_from, date_to)
    \/ \E date_from \in Days \cup {NoDate}, date_to \in Days \cup {NoDate} :
            advisors_with_stats(date_from, date_to)

SpecStats == InitStats /\ [][NextStats]_vars

\* C26: for every advisor and date range, each of the five annotations of
\* get_advisors_with_stats is the integer that get_advisor_stats_detailed
\* returns for it, advisors without leads or deals included.
C26_BulkStatsEqualDetailed ==
    \A a \in Advisors, date_from \in Days \cup {NoDate}, date_to \in Days \cup {NoDate} :
        LET bulk == get_advisors_with_stats(a, date_from, date_to)
            detailed == get_advisor_stats_detailed(a, date_from, date_to)
        IN  /\ bulk.leads_received = Scalar(detailed.leads_received)
            /\ bulk.meetings_planned = Scalar(detailed.meetings_planned)
            /\ bulk.meetings_done = Scalar(detailed.meetings_done)
            /\ bulk.deals_created = Scalar(detailed.deals_created)
            /\ bulk.deals_completed = Scalar(detailed.deals_completed)

-----------------------------------------------------------------------------
(* Saving users *)

\* User.clean: TRUE when no ValidationError is raised
User_clean(row) ==
    row.commission_referrer_pct + row.commission_manager_pct
        + row.commission_office_pct <= 100 * 100

\* The percentages submitted for a user, in hundredths: 90/10/0, 50/30/20,
\* 90/20/0 and 100/100/100
PctInputs == {<<9000, 1000, 0>>, <<5000, 3000, 2000>>, <<9000, 2000, 0>>,
              <<10000, 10000, 10000>>}

\* admin.UserAdmin change form: the ModelForm validates the instance
\* (full_clean calls User.clean) and saves it only when valid
UserAdmin_save(u, p) ==
    /\ u \in users
    /\ LET row == CommissionRow(commission[u].commission_total_per_million, p)
       IN commission' = IF User_clean(row)
                        THEN [commission EXCEPT ![u] = row]
                        ELSE commission
    /\ UNCHANGED <<hierarchy, leads, deals, left_out, loan_amount, created_at, shown, change_log>>

\* import_users Command.handle / import_view: User.objects.update_or_create
\* with the row's percentages as defaults; the model is saved as it is
import_users(u, p) ==
    /\ u \in users
    /\ role(u) \in {"REFERRER", "REFERRER_MANAGER", "OFFICE"}
    /\ commission' = [commission EXCEPT ![u] = CommissionRow(7000, p)]
    /\ UNCHANGED <<hierarchy, leads, deals, left_out, loan_amount, created_at, shown, change_log>>

InitUsers ==
    /\ \E h \in StatsHierarchies : InitHierarchy(h)
    /\ InitRows

NextUsers ==
    \/ \E u \in users, p \in PctInputs : UserAdmin_save(u, p)
    \/ \E u \in users, p \in PctInputs : import_users(u, p)

SpecUsers == InitUsers /\ [][NextUsers]_vars

\* C27: no save of a user, through the admin forms or the bulk import,
\* stores percentages whose sum exceeds 100: such a save leaves the stored
\* user as it was.
C27_OverHundredRejected ==
    [][ \A u \in users :
            ~User_clean(commission'[u]) => commission'[u] = commission[u]
      ]_vars

\* C28: a lead that has a deal has communication_status DEAL_CREATED or
\* COMMISSION_PAID, whatever request came after the creation of the deal.
C28_DealKeepsAutomaticStatus ==
    \A l \in ExistingDeals : leads[l].communication_status \in AutomaticStatus

\* A lead_edit request on a lead l that is no personal contact, submitting the
\* stored advisor, referrer, personal-contact flag and status
LeadEditUnchanged(user, l) ==
    /\ leads[l] # NoLead
    /\ ~leads[l].is_personal_contact
    /\ lead_edit(user, l, leads[l].advisor, leads[l].referrer,
                 leads[l].is_personal_contact, leads[l].communication_status)

\* C30: a lead_edit request that submits the stored advisor and referrer
\* leaves the lead's advisor and referrer as they were, whoever sends it.
C30_LeadEditKeepsAssignment ==
    [][ \A user \in users, l \in LeadIds :
            LeadEditUnchanged(user, l)
                => /\ leads'[l].advisor = leads[l].advisor
                   /\ leads'[l].referrer = leads[l].referrer
      ]_vars

-----------------------------------------------------------------------------
(* Change logging by the Lead signals, two saves in one process *)

\* The saves of the same lead that run concurrently
MaxSaves == 2
SaveIds == 1..MaxSaves

\* The values a save writes to the tracked column communication_status
SavedStatuses == {"NEW", "MEETING", "FAILED"}

\* The save s of lead l, at any step
SaveOf(s, l) == {r \in running : r.op = "lead_save" /\ r.save = s /\ r.lead = l}

\* signals.lead_pre_save: the stored row is read and kept under the lead's pk
lead_pre_save(s, l, instance) ==
    /\ leads[l] # NoLead
    /\ \A k \in LeadIds : SaveOf(s, k) = {}
    /\ lead_old_values' =
            [lead_old_values EXCEPT ![l] = leads[l].communication_status]
    /\ running' = running \cup
            {[op |-> "lead_save", save |-> s, lead |-> l, instance |-> instance,
              before |-> NoEntry, pc |-> "pre_save done"]}
    /\ UNCHANGED <<hierarchy, leads, deals, journal, columns, commission, loan_amount,
                   created_at, shown, activity_log>>

\* Model.save: the row is written; before keeps the value it replaces
lead_row_write(s, l) ==
    /\ \E r \in SaveOf(s, l) :
        /\ r.pc = "pre_save done"
        /\ running' = (running \ {r}) \cup
                {[r EXCEPT !.pc = "row written",
                           !.before = leads[l].communication_status]}
        /\ leads' = [leads EXCEPT ![l].communication_status = r.instance]
    /\ UNCHANGED <<hierarchy, deals, journal, columns, figures>>

\* signals.sync_lead_to_deal up to the ActivityLog row: nothing is logged
\* when the pk is not in the cache
sync_lead_to_deal_log(s, l) ==
    /\ \E r \in SaveOf(s, l) :
        /\ r.pc = "row written"
        /\ IF lead_old_values[l] # NoEntry
           THEN /\ activity_log' =
                        IF lead_old_values[l] # r.instance
                        THEN Append(activity_log,
                                [activity_type |-> "LEAD_UPDATED", save |-> s, lead |-> l,
                                 old |-> lead_old_values[l], new |-> r.instance])
                        ELSE activity_log
                /\ running' = (running \ {r}) \cup {[r EXCEPT !.pc = "logged"]}
           ELSE /\ activity_log' = activity_log
                /\ running' = (running \ {r}) \cup {[r EXCEPT !.pc = "done"]}
    /\ UNCHANGED <<hierarchy, leads, deals, journal, columns, commission, loan_amount,
                   created_at, shown, lead_old_values>>

\* signals.sync_lead_to_deal: del _lead_old_values[instance.pk]; KeyError when
\* the other save has deleted the entry in between
sync_lead_to_deal_del(s, l) ==
    /\ \E r \in SaveOf(s, l) :
        /\ r.pc = "logged"
        /\ running' = (running \ {r}) \cup
                {[r EXCEPT !.pc = IF lead_old_values[l] # NoEntry
                                  THEN "done" ELSE "KeyError"]}
    /\ lead_old_values' = [lead_old_values EXCEPT ![l] = NoEntry]
    /\ UNCHANGED <<hierarchy, leads, deals, journal, columns, commission, loan_amount,
                   created_at, shown, activity_log>>

\* A lead with status NEW is stored; the cache is empty
InitSignals ==
    /\ \E h \in TrailHierarchies : InitHierarchy(h)
    /\ leads = [l \in LeadIds |-> NewLead("R", "A", FALSE, "NEW")]
    /\ deals = [l \in LeadIds |-> NoDeal]
    /\ notes = {}
    /\ history = {}
    /\ emitted = NothingEmitted
    /\ lead_client = [l \in LeadIds |-> NoClient]
    /\ deal_client = [l \in LeadIds |-> NoClient]
    /\ deal_status = [l \in LeadIds |-> None]
    /\ running = {}
    /\ InitFigures

NextSignals ==
    \/ \E s \in SaveIds, l \in LeadIds, v \in SavedStatuses : lead_pre_save(s, l, v)
    \/ \E s \in SaveIds, l \in LeadIds : lead_row_write(s, l)
    \/ \E s \in SaveIds, l \in LeadIds : sync_lead_to_deal_log(s, l)
    \/ \E s \in SaveIds, l \in LeadIds : sync_lead_to_deal_del(s, l)

SpecSignals == InitSignals /\ [][NextSignals]_vars

\* The LEAD_UPDATED rows written by save s of lead l
LoggedBy(s, l) ==
    {i \in 1..Len(activity_log) : activity_log[i].save = s /\ activity_log[i].lead = l}

\* C29: once two concurrent saves of a lead have both completed, whatever
\* their interleaving, each save that changed the tracked column has written
\* exactly one LEAD_UPDATED row, whose old value is the value the save
\* replaced, no save has failed, and the cache holds no entry for the lead.
C29_ChangeLogRaceFree ==
    \A l \in LeadIds :
        (\A s \in SaveIds : \E r \in SaveOf(s, l) : r.pc \in {"done", "KeyError"})
        => /\ \A s \in SaveIds : \A r \in SaveOf(s, l) :
                /\ r.pc = "done"
                /\ r.before # r.instance
                    => /\ Cardinality(LoggedBy(s, l)) = 1
                       /\ \A i \in LoggedBy(s, l) : activity_log[i].old = r.before
           /\ lead_old_values[l] = NoEntry

====
